---------------------------- MODULE Spec2Model ----------------------------
(***************************************************************************)
(* Model of the dApp scanner: the interaction prober (analyzeWebsite), the *)
(* bytecode risk analyzer (scanContracts) and the risk aggregator          *)
(* (calculateRiskSummary).  JavaScript strings are TLC strings; includes   *)
(* and toLowerCase are computed character by character.                    *)
(***************************************************************************)
EXTENDS Integers, Sequences, FiniteSets, TLC

VARIABLES
    \* ---- calculateRiskSummary (src/utils/generateReport.js) ----
    frontendAnalysis,   \* argument 1: [buttons, externalScripts]
    contractAnalysis,   \* argument 2: [addresses, verified, risks]
    riskSummary,        \* <<>> before the call, <<[level, score, issues, summary]>> after
    \* ---- scanContracts (src/analysis/contractScanner.js) ----
    contractAddresses,  \* the argument
    scanPc,             \* "idle", "loop" (fetching the code of the next address),
                        \* "decoding" (in decodeFunctionSelectors, a request in
                        \* flight or all answered), "delaying" (its 100 ms
                        \* timer pending), "done", "threw"
    scanIndex,          \* position of the loop in addressesToAnalyze
    results,            \* the results object being filled and returned
    contractData,       \* <<>>, or <<what fetchContractCode returned>> while the
                        \* contract is being decoded
    scanAnswers,        \* what the signature database answers to this contract's
                        \* selectors
    scanLookup,         \* the lookups of this contract answered so far
    fetched,            \* history: [address, bytecode] of every fetchContractCode call
    caught,             \* history: the addresses whose processing raised an exception
    lookups,            \* history: per contract decoded, the selectors requested from
                        \* the signature database
    \* ---- analyzeWebsite (src/analysis/puppeteerScan.js) ----
    probePc,            \* where analyzeWebsite is: "idle"; "launched", "paged", "sized",
                        \* "named", "injected" (setting the page up); "loading",
                        \* "settling", "content" (page.content() pending); in the
                        \* loop "testing" (at its head), "cleared",
                        \* "found", "clicked", "waited", "goingBack", "backLoading",
                        \* "reading" (the last read of the log pending);
                        \* "closing" (in the finally block); "returned", "failed"
    browser,            \* the session: "none", "open", "closed"
    pageUrl,            \* page.url(): "original" or "other"
    walletInteractions, \* window.walletInteractions of the current document
    onLoad,             \* the document at the URL: [calls, text, requests, later]
    pending,            \* wallet calls the page's scripts have yet to make
    pendingRequests,    \* requests the document has yet to make: [request, late]
    networkRequests,    \* the requests recorded by the 'request' handler
    clock,              \* Date.now() of the page
    buttons,            \* the controls found, with action and risk
    testIndex,          \* i of the loop over the controls (from 1)
    active,             \* controls so far that did more than change the UI
    probeAddresses,     \* contractAddresses of lines 204-219, in insertion order
    probeResult,        \* <<>>, or <<the value of the return statement>>
    probeError,         \* [step, message] of the exception analyzeWebsite threw
    sessionLog,         \* history: every entry ever appended to an interaction log
    testLog,            \* history: what the click on each control tested did
    \* ---- decodeFunctionSelectors, getFunctionSignature ----
    decodePc,           \* "idle", "looking" (a request is in flight), "delaying" (in
                        \* the pause after an answered request), "decoded", "resolved"
    selectorsIn,        \* the selectors passed in
    lookupAnswers,      \* what the signature database answers, per selector looked up
    functionsOut,       \* the functions array, which is the value returned
    lookupsMade,        \* history: the selectors requested from the signature database
    decodeTrace,        \* history: the "lookup" and "delay" steps of the call, in order
    \* ---- one scan: the analyze action (src/cli/scan.js) and POST /api/analyze ----
    runPc,              \* "idle", "probing", "scanning", "reporting", "saving" (in
                        \* mkdir), "writing" (writing the report files), "done",
                        \* "failed"; of the module of the API: "listening" (its
                        \* routes are registered), "crashed" (its evaluation threw)
    runRequest,         \* [entry, url, format]
    runFrontend,        \* <<>>, or <<what analyzeWebsite returned>>
    runContracts,       \* <<>>, or <<what scanContracts returned>>
    report,             \* <<>>, or <<what generateReport returned>>
    savedFiles,         \* the paths of the report files written
    runOutcome,         \* what the caller receives: [kind, code, error]
    runPhases,          \* history: the phases started and completed, in order
    runClock,           \* seconds since the request was received
    \* ---- direct calls of the bytecode helpers (src/analysis/contractScanner.js) ----
    byteFn,             \* "" before the call, then the name of the function called
    byteIn,             \* the bytecode passed in
    byteFunctions,      \* the decoded functions given to analyzeContractRisks
    byteOut,            \* <<>>, or <<the value returned>>
    \* ---- fetchContractCode (src/utils/fetchContractCode.js) ----
    fetchPc,            \* "idle", "code", "source", "rpc" (the request in flight),
                        \* "returned" or "threw"
    fetchIn,            \* [address, codeResp, srcResp, rpcResp]: the call and the answers
    fetchTrace          \* <<>>, or <<[requests, etherscan, rpc, result]>> of the call

riskVars == <<frontendAnalysis, contractAnalysis, riskSummary>>
scanVars == <<contractAddresses, scanPc, scanIndex, results, contractData, scanAnswers,
              scanLookup, fetched, caught, lookups>>
probeVars == <<probePc, browser, pageUrl, walletInteractions, onLoad, pending,
               pendingRequests, networkRequests, clock, buttons,
               testIndex, active, probeAddresses, probeResult, probeError, sessionLog,
               testLog>>

decodeVars == <<decodePc, selectorsIn, lookupAnswers, functionsOut, lookupsMade,
               decodeTrace>>

runVars == <<runPc, runRequest, runFrontend, runContracts, report, savedFiles, runOutcome,
             runPhases, runClock>>

byteVars == <<byteFn, byteIn, byteFunctions, byteOut>>

fetchVars == <<fetchPc, fetchIn, fetchTrace>>

\* What an operation of one component leaves alone.
outsideRisk == <<scanVars, probeVars, decodeVars, runVars, byteVars, fetchVars>>
outsideScan == <<riskVars, probeVars, decodeVars, runVars, byteVars, fetchVars>>
outsideProbe == <<riskVars, scanVars, decodeVars, runVars, byteVars, fetchVars>>
outsideDecode == <<riskVars, scanVars, probeVars, runVars, byteVars, fetchVars>>
outsideRun == <<riskVars, scanVars, probeVars, decodeVars, byteVars, fetchVars>>
outsideByte == <<riskVars, scanVars, probeVars, decodeVars, runVars, fetchVars>>
outsideFetch == <<riskVars, scanVars, probeVars, decodeVars, runVars, byteVars>>

vars == <<frontendAnalysis, contractAnalysis, riskSummary,
          contractAddresses, scanPc, scanIndex, results, contractData, scanAnswers,
          scanLookup, fetched, caught, lookups,
          probePc, browser, pageUrl, walletInteractions, onLoad, pending,
          pendingRequests, networkRequests, clock, buttons,
          testIndex, active, probeAddresses, probeResult, probeError, sessionLog, testLog,
          decodePc, selectorsIn, lookupAnswers, functionsOut, lookupsMade, decodeTrace,
          runPc, runRequest, runFrontend, runContracts, report, savedFiles, runOutcome,
          runPhases, runClock, byteFn, byteIn, byteFunctions, byteOut, fetchPc, fetchIn, fetchTrace>>

-----------------------------------------------------------------------------
(* JavaScript string primitives                                            *)

Min(a, b) == IF a < b THEN a ELSE b
Max(a, b) == IF a > b THEN a ELSE b

\* String.prototype.includes: pat occurs in s as a contiguous, case-sensitive substring.
Includes(s, pat) ==
    \E i \in 1..(Len(s) - Len(pat) + 1) : SubSeq(s, i, i + Len(pat) - 1) = pat

\* String.prototype.repeat: s repeated n times.
RECURSIVE Repeat(_, _)
Repeat(s, n) ==
    IF n = 0 THEN ""
    ELSE IF n % 2 = 0 THEN LET half == Repeat(s, n \div 2) IN half \o half
    ELSE s \o Repeat(s, n - 1)

UpperChars == "ABCDEFGHIJKLMNOPQRSTUVWXYZ"
LowerChars == "abcdefghijklmnopqrstuvwxyz"

LowerChar(c) ==
    IF \E i \in 1..26 : SubSeq(UpperChars, i, i) = c
    THEN LET i == CHOOSE j \in 1..26 : SubSeq(UpperChars, j, j) = c
         IN  SubSeq(LowerChars, i, i)
    ELSE c

\* String.prototype.toLowerCase
RECURSIVE ToLowerCase(_)
ToLowerCase(s) ==
    IF Len(s) = 0 THEN ""
    ELSE IF Len(s) = 1 THEN LowerChar(s)
    ELSE ToLowerCase(SubSeq(s, 1, Len(s) \div 2))
            \o ToLowerCase(SubSeq(s, Len(s) \div 2 + 1, Len(s)))

-----------------------------------------------------------------------------
(* Risk aggregator: src/utils/generateReport.js                            *)

IsDanger(b)  == b.risk = "danger"
IsWarning(b) == b.risk = "warning"
IsTrue(v)    == v = TRUE
IsFalse(v)   == v = FALSE

\* Mutant: the texts are looked for in any letter case.
RiskPenaltyAnyCase(risk) ==
    IF Includes(ToLowerCase(risk), "selfdestruct") \/ Includes(ToLowerCase(risk), "proxy")
    THEN 20
    ELSE IF Includes(ToLowerCase(risk), "delegatecall")
            \/ Includes(ToLowerCase(risk), "dangerous function")
    THEN 15
    ELSE 5

\* The penalty of one contract risk string (the forEach body, lines 117-126).
RiskPenalty(risk) ==
    IF Includes(risk, "SELFDESTRUCT") \/ Includes(risk, "Proxy") THEN 20
    ELSE IF Includes(risk, "DELEGATECALL") \/ Includes(risk, "Dangerous function") THEN 15
    ELSE 5

\* Risk strings as scanContracts produces them (contractScanner.js 71, 110-113, 124, 140).
RiskPool ==
    {"SELFDESTRUCT - Contract can be destroyed",
     "DELEGATECALL - Dangerous proxy pattern detected",
     "CALL - External calls detected",
     "Proxy contract detected - Implementation can be changed",
     "Dangerous function detected: selfdestruct()"}

\* RiskPenalty of the strings above, evaluated once.
RiskPenaltyMemo == [r \in RiskPool |-> RiskPenalty(r)]

PenaltyOf(risk) ==
    IF risk \in RiskPool THEN RiskPenaltyMemo[risk] ELSE RiskPenalty(risk)

\* contractAnalysis.risks.forEach: the running score after every risk string.
RECURSIVE DeductRisks(_, _)
DeductRisks(riskScore, risks) ==
    IF risks = <<>> THEN riskScore
    ELSE DeductRisks(riskScore - PenaltyOf(Head(risks)), Tail(risks))

\* Mutant: strict comparisons at the breakpoints.
RiskLevelStrict(riskScore) ==
    IF riskScore > 80 THEN "safe"
    ELSE IF riskScore > 50 THEN "warning"
    ELSE "danger"

\* Lines 131-139.
RiskLevel(riskScore) ==
    IF riskScore >= 80 THEN "safe"
    ELSE IF riskScore >= 50 THEN "warning"
    ELSE "danger"

\* Mutant: no floor at 0.
ClampScoreNoFloor(riskScore) == riskScore

\* Line 129: riskScore = Math.max(0, riskScore).
ClampScore(riskScore) == Max(0, riskScore)

LevelDescription(level) ==
    CASE level = "safe" -> "This dApp appears to be relatively safe to interact with."
      [] level = "warning" -> "This dApp has some potential security concerns that should be reviewed."
      [] level = "danger" -> "This dApp has significant security risks and should be approached with extreme caution."

generateRiskSummaryText(level, score, issues) ==
    LevelDescription(level) \o " Security score: " \o ToString(score) \o "/100. "
        \o ToString(Len(issues)) \o " issue(s) identified."

\* Mutant: the verified entry is added only when nothing else was found.
PositiveFindingsOnlyWhenClean(issues, verified) ==
    IF Len(issues) > 0 THEN issues
    ELSE IF verified > 0
    THEN <<"[ok] " \o ToString(verified) \o " verified contract(s) found",
           "No significant security issues detected">>
    ELSE <<"No significant security issues detected">>

\* Lines 141-149: the positive findings.  The check-mark glyph of line 148 is
\* written "[ok]": module text is ASCII.
PositiveFindings(issues, verified) ==
    LET i7 == IF Len(issues) = 0 THEN <<"No significant security issues detected">>
              ELSE issues
    IN  IF verified > 0
        THEN <<"[ok] " \o ToString(verified) \o " verified contract(s) found">> \o i7
        ELSE i7

\* Line 107: the issue recorded with the no-contracts deduction.
NoContractsIssue == "No smart contracts detected - may not be a genuine Web3 dApp"

NoContractsFoundByVerified(ca) ==
    \A k \in 1..Len(ca.verified) : ~IsTrue(ca.verified[k])

\* Line 105: contractAnalysis.addresses?.length === 0.
NoContractsFound(ca) ==
    Len(ca.addresses) = 0

calculateRiskSummary(fa, ca) ==
    LET dangerous == Len(SelectSeq(fa.buttons, IsDanger))
        warning   == Len(SelectSeq(fa.buttons, IsWarning))
        scripts   == Len(fa.externalScripts)
        unverified == Len(SelectSeq(ca.verified, IsFalse))
        verified   == Len(SelectSeq(ca.verified, IsTrue))
        i1 == IF dangerous > 0
              THEN <<ToString(dangerous) \o " high-risk button(s) detected (wallet transactions)">>
              ELSE <<>>
        s1 == IF dangerous > 0 THEN 100 - dangerous * 15 ELSE 100
        i2 == IF warning > 0
              THEN Append(i1, ToString(warning) \o " medium-risk button(s) detected (signatures/redirects)")
              ELSE i1
        s2 == IF warning > 0 THEN s1 - warning * 5 ELSE s1
        i3 == IF scripts > 3
              THEN Append(i2, "High number of external scripts (" \o ToString(scripts) \o ")")
              ELSE i2
        s3 == IF scripts > 3 THEN s2 - 10 ELSE s2
        i4 == IF NoContractsFound(ca)
              THEN Append(i3, NoContractsIssue)
              ELSE i3
        s4 == IF NoContractsFound(ca) THEN s3 - 20 ELSE s3
        i5 == IF unverified > 0
              THEN Append(i4, ToString(unverified) \o " unverified contract(s) detected")
              ELSE i4
        s5 == IF unverified > 0 THEN s4 - unverified * 10 ELSE s4
        i6 == i5 \o ca.risks
        s6 == DeductRisks(s5, ca.risks)
        riskScore == ClampScore(s6)
        level == RiskLevel(riskScore)
        issues == PositiveFindings(i6, verified)
    IN  [level |-> level,
         score |-> riskScore,      \* Math.round of an integer
         issues |-> issues,
         summary |-> generateRiskSummaryText(level, riskScore, issues)]

-----------------------------------------------------------------------------
(* Values that are not strings                                             *)

NullValue == "<null>"           \* null
UndefinedValue == "<undefined>" \* undefined, or a property that is absent
HttpError == "<http error>"     \* the request failed or timed out (axios rejects)

\* JavaScript truthiness of a string-or-null value.
Truthy(v) == v \notin {NullValue, UndefinedValue, ""}

IsString(v) == v \notin {NullValue, UndefinedValue}

\* The text of a value inside a template literal or a string concatenation.
TemplateText(v) ==
    IF v = NullValue THEN "null" ELSE IF v = UndefinedValue THEN "undefined" ELSE v

\* The message of the TypeError thrown when property is read of null or undefined.
CannotRead(v, property) ==
    "Cannot read properties of " \o TemplateText(v) \o " (reading '" \o property \o "')"

-----------------------------------------------------------------------------
(* Code sources: src/utils/fetchContractCode.js                            *)

NoCode == [bytecode |-> NullValue, verified |-> FALSE, sourceCode |-> NullValue]

\* codeResp: data.result of the eth_getCode request, or HttpError.
\* srcResp: data.result[0].SourceCode of the getsourcecode request, or HttpError.
fetchFromEtherscan(codeResp, srcResp) ==
    IF codeResp = HttpError THEN NoCode                    \* first await rejects: catch
    ELSE LET bytecode == IF Truthy(codeResp) THEN codeResp ELSE NullValue
         IN  IF srcResp = HttpError                        \* second await rejects: catch
             THEN [NoCode EXCEPT !.bytecode = bytecode]
             ELSE IF Truthy(srcResp)
                  THEN [bytecode |-> bytecode, verified |-> TRUE, sourceCode |-> srcResp]
                  ELSE [NoCode EXCEPT !.bytecode = bytecode]

\* rpcResp: data.result of the JSON-RPC eth_getCode call, or HttpError.
fetchFromRPC(rpcResp) ==
    IF rpcResp # HttpError /\ Truthy(rpcResp)
    THEN [NoCode EXCEPT !.bytecode = rpcResp]
    ELSE NoCode

\* Line 20: without bytecode from Etherscan the public RPC is asked.
ConsultsFallback(etherscanResult) == ~Truthy(etherscanResult.bytecode)

\* The fallback is consulted only when Etherscan gave no bytecode.
fetchContractCode(address, codeResp, srcResp, rpcResp) ==
    LET etherscanResult == fetchFromEtherscan(codeResp, srcResp)
        rpcResult == fetchFromRPC(rpcResp)
        data == IF ~ConsultsFallback(etherscanResult) THEN etherscanResult
                ELSE IF Truthy(rpcResult.bytecode) THEN rpcResult
                ELSE NoCode
    IN  [address |-> address, bytecode |-> data.bytecode,
         verified |-> data.verified, sourceCode |-> data.sourceCode]

\* Mutant: the helper's catch block throws the error again.
HelperCatchRethrow(result) == [threw |-> TRUE, result |-> result]

\* Lines 93-95 and 129-131: the catch block of a helper logs the error; the
\* helper then returns result as it is at that moment.
HelperCatch(result) == [threw |-> FALSE, result |-> result]

\* Lines 9-15: the result before any source has answered.
EmptyResult(address) ==
    [address |-> address, bytecode |-> NullValue, verified |-> FALSE, sourceCode |-> NullValue]

\* The call in progress: the requests sent so far, what either helper returned
\* (NoCode for a helper that has not returned), whether the call threw (lines
\* 33-36 throw what a helper throws) and the result object.
CallStarted(address) ==
    [threw |-> FALSE, requests |-> <<"etherscan eth_getCode">>,
     etherscan |-> NoCode, rpc |-> NoCode, result |-> EmptyResult(address)]

\* Lines 19-26: fetchFromEtherscan has returned (or thrown).  With bytecode the
\* result is returned (lines 20-23), without it fetchFromRPC sends its request.
AfterEtherscan(call, helper) ==
    IF helper.threw
    THEN [pc |-> "threw", call |-> [call EXCEPT !.threw = TRUE]]
    ELSE IF ~ConsultsFallback(helper.result)
    THEN [pc |-> "returned",
          call |-> [call EXCEPT !.etherscan = helper.result,
                                !.result = [address |-> call.result.address,
                                            bytecode |-> helper.result.bytecode,
                                            verified |-> helper.result.verified,
                                            sourceCode |-> helper.result.sourceCode]]]
    ELSE [pc |-> "rpc",
          call |-> [call EXCEPT !.etherscan = helper.result,
                                !.requests = Append(@, "rpc eth_getCode")]]

\* Lines 26-31: fetchFromRPC has returned (or thrown).
AfterRPC(call, helper) ==
    IF helper.threw
    THEN [pc |-> "threw", call |-> [call EXCEPT !.threw = TRUE]]
    ELSE [pc |-> "returned",
          call |-> [call EXCEPT !.rpc = helper.result,
                                !.result = IF Truthy(helper.result.bytecode)
                                           THEN [address |-> call.result.address,
                                                 bytecode |-> helper.result.bytecode,
                                                 verified |-> helper.result.verified,
                                                 sourceCode |-> helper.result.sourceCode]
                                           ELSE @]]

\* What a helper hands to its caller: its result, through the catch block when a
\* request of it was rejected.
Helper(failed, result) ==
    IF failed THEN HelperCatch(result) ELSE [threw |-> FALSE, result |-> result]

-----------------------------------------------------------------------------
(* Selector lookup: src/utils/decodeFunctionSelectors.js                   *)

MaxLookups == 10        \* selectors.slice(0, 10)

\* One selector's response of the signature database: ok = FALSE when the request
\* fails or times out, otherwise results = the text_signature of every candidate
\* (NullValue or UndefinedValue for a candidate without one).
LookupFailed == [ok |-> FALSE, results |-> <<>>]

\* Mutant: a failed lookup is reported as an unknown selector.
DecodeOneFailureAsUnknown(selector, resp) ==
    IF resp.ok /\ Len(resp.results) > 0 THEN resp.results[1]
    ELSE "Unknown function: " \o selector

DecodeOne(selector, resp) ==
    IF ~resp.ok THEN "Failed to decode: " \o selector
    ELSE IF Len(resp.results) > 0 THEN resp.results[1]
    ELSE "Unknown function: " \o selector

\* Mutant: every selector is looked up.
LookupsOfAll(selectors) == selectors

\* Line 14: the selectors looked up, one request each.
LookupsOf(selectors) == SubSeq(selectors, 1, Min(Len(selectors), MaxLookups))

\* Lines 14-16: the next pass of the loop sends its request, or the loop is over
\* and functions is returned (line 42).
NextPass(selectors, made, trace) ==
    IF Len(made) < Len(LookupsOf(selectors))
    THEN [pc |-> "looking",
          made |-> Append(made, LookupsOf(selectors)[Len(made) + 1]),
          trace |-> Append(trace, "lookup")]
    ELSE [pc |-> "decoded", made |-> made, trace |-> trace]

\* responses[i] answers the lookup of selectors[i].
decodeFunctionSelectors(selectors, responses) ==
    [i \in 1..Len(LookupsOf(selectors)) |-> DecodeOne(LookupsOf(selectors)[i], responses[i])]

COMMON_SELECTORS ==
    [sel \in {"0xa9059cbb", "0x23b872dd", "0x095ea7b3", "0x70a08231", "0x18160ddd",
              "0x8da5cb5b", "0xf2fde38b", "0x715018a6", "0x40c10f19", "0x42966c68",
              "0x06fdde03", "0x95d89b41", "0x313ce567", "0xa0712d68", "0xd0def521",
              "0x12065fe0", "0x3ccfd60b", "0x2e1a7d4d", "0xf14fcbc8", "0x1249c58b",
              "0xff1e7774", "0x4e71d92d", "0x379607f5", "0x5312ea8e", "0x2e17de78",
              "0x5c60da1b", "0x8f283970", "0xf851a440"} |->
        CASE sel = "0xa9059cbb" -> "transfer(address,uint256)"
          [] sel = "0x23b872dd" -> "transferFrom(address,address,uint256)"
          [] sel = "0x095ea7b3" -> "approve(address,uint256)"
          [] sel = "0x70a08231" -> "balanceOf(address)"
          [] sel = "0x18160ddd" -> "totalSupply()"
          [] sel = "0x8da5cb5b" -> "owner()"
          [] sel = "0xf2fde38b" -> "transferOwnership(address)"
          [] sel = "0x715018a6" -> "renounceOwnership()"
          [] sel = "0x40c10f19" -> "mint(address,uint256)"
          [] sel = "0x42966c68" -> "burn(uint256)"
          [] sel = "0x06fdde03" -> "name()"
          [] sel = "0x95d89b41" -> "symbol()"
          [] sel = "0x313ce567" -> "decimals()"
          [] sel = "0xa0712d68" -> "mint(uint256)"
          [] sel = "0xd0def521" -> "message()"
          [] sel = "0x12065fe0" -> "getBalance()"
          [] sel = "0x3ccfd60b" -> "withdraw()"
          [] sel = "0x2e1a7d4d" -> "withdraw(uint256)"
          [] sel = "0xf14fcbc8" -> "deposit()"
          [] sel = "0x1249c58b" -> "mint()"
          [] sel = "0xff1e7774" -> "claim()"
          [] sel = "0x4e71d92d" -> "claim()"
          [] sel = "0x379607f5" -> "claim(uint256)"
          [] sel = "0x5312ea8e" -> "claim(address)"
          [] sel = "0x2e17de78" -> "setImplementation(address)"
          [] sel = "0x5c60da1b" -> "implementation()"
          [] sel = "0x8f283970" -> "changeAdmin(address)"
          [] sel = "0xf851a440" -> "admin()"]

\* COMMON_SELECTORS[selector] || null
getFunctionSignature(selector) ==
    IF selector \in DOMAIN COMMON_SELECTORS THEN COMMON_SELECTORS[selector] ELSE NullValue

-----------------------------------------------------------------------------
(* Bytecode analysis: src/analysis/contractScanner.js                      *)

HexChars == "0123456789abcdefABCDEF"

RECURSIVE AllHex(_)
AllHex(s) ==
    Len(s) = 0 \/ (Includes(HexChars, SubSeq(s, 1, 1)) /\ AllHex(SubSeq(s, 2, Len(s))))

\* Mutant: an array instead of a Set, every match is kept.
AddToSetAlways(seq, x) == Append(seq, x)

\* Set.prototype.add on a Set kept in insertion order.
AddToSet(seq, x) == IF \E i \in 1..Len(seq) : seq[i] = x THEN seq ELSE Append(seq, x)

\* regex.exec loop of /63([a-fA-F0-9]{8})/g from position pos: leftmost match, then
\* on from the end of the match.
RECURSIVE ScanSelectors(_, _, _)
ScanSelectors(bytecode, pos, selectors) ==
    IF pos + 9 > Len(bytecode) THEN selectors
    ELSE IF SubSeq(bytecode, pos, pos + 1) = "63"
            /\ AllHex(SubSeq(bytecode, pos + 2, pos + 9))
         THEN ScanSelectors(bytecode, pos + 10,
                            AddToSet(selectors, "0x" \o SubSeq(bytecode, pos + 2, pos + 9)))
         ELSE ScanSelectors(bytecode, pos + 1, selectors)

extractFunctionSelectors(bytecode) == ScanSelectors(bytecode, 1, <<>>)

\* Mutant: the patterns are looked for in the bytecode as given.
detectProxyCaseSensitive(bytecode) ==
    \/ Includes(bytecode, "6010600a")
    \/ Includes(bytecode, "f4")
    \/ Includes(bytecode, "60008060208180")

detectProxy(bytecode) ==
    LET lowerBytecode == ToLowerCase(bytecode)
    IN  \/ Includes(lowerBytecode, "6010600a")
        \/ Includes(lowerBytecode, "f4")
        \/ Includes(lowerBytecode, "60008060208180")

LargeContractLength == 50000

dangerousOpcodes ==
    << <<"ff", "SELFDESTRUCT - Contract can be destroyed">>,
       <<"f4", "DELEGATECALL - Dangerous proxy pattern detected">>,
       <<"f1", "CALL - External calls detected">>,
       <<"f2", "CALLCODE - Legacy external call pattern">> >>

dangerousFunctions ==
    <<"transferOwnership", "selfdestruct", "suicide", "delegatecall", "changeImplementation">>

RECURSIVE OpcodeRisks(_, _)
OpcodeRisks(bytecode, k) ==
    IF k > Len(dangerousOpcodes) THEN <<>>
    ELSE (IF Includes(ToLowerCase(bytecode), dangerousOpcodes[k][1])
          THEN <<dangerousOpcodes[k][2]>> ELSE <<>>) \o OpcodeRisks(bytecode, k + 1)

\* Mutant: the keywords are looked for in the function as decoded.
RECURSIVE KeywordRisksCaseSensitive(_, _)
KeywordRisksCaseSensitive(func, k) ==
    IF k > Len(dangerousFunctions) THEN <<>>
    ELSE (IF Includes(func, dangerousFunctions[k])
          THEN <<"Dangerous function detected: " \o func>> ELSE <<>>)
         \o KeywordRisksCaseSensitive(func, k + 1)

\* The inner loop over dangerousFunctions for one decoded function.
RECURSIVE KeywordRisks(_, _)
KeywordRisks(func, k) ==
    IF k > Len(dangerousFunctions) THEN <<>>
    ELSE (IF Includes(ToLowerCase(func), ToLowerCase(dangerousFunctions[k]))
          THEN <<"Dangerous function detected: " \o func>> ELSE <<>>)
         \o KeywordRisks(func, k + 1)

RECURSIVE FunctionRisks(_)
FunctionRisks(functions) ==
    IF functions = <<>> THEN <<>>
    ELSE KeywordRisks(Head(functions), 1) \o FunctionRisks(Tail(functions))

\* func.toLowerCase() on a decoded function that is null or undefined.
TypeErrorMessage(func) == CannotRead(func, "toLowerCase")

\* func.toLowerCase() throws a TypeError on a decoded function that is not a string.
analyzeContractRisks(bytecode, functions) ==
    IF \E i \in 1..Len(functions) : ~IsString(functions[i])
    THEN LET first == CHOOSE i \in 1..Len(functions) :
                          /\ ~IsString(functions[i])
                          /\ \A j \in 1..(i - 1) : IsString(functions[j])
         IN  [threw |-> TRUE, message |-> TypeErrorMessage(functions[first]), risks |-> <<>>]
    ELSE [threw |-> FALSE, message |-> "",
          risks |-> OpcodeRisks(bytecode, 1)
                    \o (IF detectProxy(bytecode)
                        THEN <<"Proxy contract detected - Implementation can be changed">>
                        ELSE <<>>)
                    \o FunctionRisks(functions)
                    \o (IF Len(bytecode) > LargeContractLength
                        THEN <<"Large contract size - High complexity detected">>
                        ELSE <<>>)]

-----------------------------------------------------------------------------
(* The chain and the services a contract scan talks to                     *)

\* A contract with the selector of transferOwnership(address), unverified.
CodeOwnable == "0x608063f2fde38b14"
\* A contract with the DELEGATECALL and SELFDESTRUCT bytes, verified.
CodeProxy == "0x6080F4ff"

\* A token: eleven PUSH4 selectors, one more than is looked up.
CodeToken ==
    "0x608063a9059cbb6323b872dd63095ea7b36370a082316318160ddd63"
        \o "8da5cb5b63f2fde38b63715018a66340c10f196342966c686306fdde03"

Codes == {CodeOwnable, CodeProxy, CodeToken}

\* What eth_getCode may answer, from either source.
CodeResponses == {HttpError, NullValue, "0x"} \cup Codes

\* The registry's source text of a bytecode ("" when it is not verified).
RegistrySource(codeResp) == IF codeResp = CodeProxy THEN "contract Proxy {}" ELSE ""

SourceResponses(codeResp) == {HttpError, RegistrySource(codeResp)}

SignatureDb(selector) ==
    IF selector \in DOMAIN COMMON_SELECTORS THEN COMMON_SELECTORS[selector]
    ELSE "f" \o selector \o "()"

\* What the signature database may answer for one selector: the request fails or
\* times out, no candidate, the signature, or a candidate without text_signature.
LookupKinds == {"failed", "empty", "found", "malformed", "missing"}

LookupAnswer(kind, selector) ==
    CASE kind = "failed" -> LookupFailed
      [] kind = "empty" -> [ok |-> TRUE, results |-> <<>>]
      [] kind = "found" -> [ok |-> TRUE, results |-> <<SignatureDb(selector)>>]
      [] kind = "malformed" -> [ok |-> TRUE, results |-> <<NullValue>>]
      [] kind = "missing" -> [ok |-> TRUE, results |-> <<UndefinedValue>>]

LookupResponses(selector) == {LookupAnswer(kind, selector) : kind \in LookupKinds}

\* The database answers every request the same way but the odd-th one.
AnswersFor(selectors, base, odd, oddKind) ==
    [i \in 1..Len(selectors) |->
        LookupAnswer(IF i = odd THEN oddKind ELSE base, selectors[i])]

MaxFreeAnswers == 2     \* selectors of a contract answered independently of each other

\* One response per selector.
RECURSIVE ResponseChoices(_)
ResponseChoices(selectors) ==
    IF selectors = <<>> THEN {<<>>}
    ELSE {<<r>> \o rest : r \in LookupResponses(Head(selectors)),
                          rest \in ResponseChoices(Tail(selectors))}

\* The analysis of the world's bytecodes, evaluated once: what the three functions
\* of the scanner return on each bytecode and each set of answers.
SelectorsOf == [b \in Codes |-> extractFunctionSelectors(b)]
\* The answers to the selectors of a contract: any combination for a few
\* selectors, the same kind of answer to all of many.
ChoicesOf ==
    [b \in Codes |->
        IF Len(SelectorsOf[b]) <= MaxFreeAnswers THEN ResponseChoices(SelectorsOf[b])
        ELSE {AnswersFor(SelectorsOf[b], kind, 1, kind) : kind \in {"found", "failed"}}]
DecodedOf ==
    [b \in Codes |-> [rs \in ChoicesOf[b] |-> decodeFunctionSelectors(SelectorsOf[b], rs)]]
AnalysisOf ==
    [b \in Codes |-> [rs \in ChoicesOf[b] |-> analyzeContractRisks(b, DecodedOf[b][rs])]]
IsProxyOf == [b \in Codes |-> detectProxy(b)]

Selectors(bytecode) ==
    IF bytecode \in Codes THEN SelectorsOf[bytecode] ELSE extractFunctionSelectors(bytecode)
Decoded(bytecode, responses) ==
    IF bytecode \in Codes THEN DecodedOf[bytecode][responses]
    ELSE decodeFunctionSelectors(extractFunctionSelectors(bytecode), responses)
Analysis(bytecode, responses) ==
    IF bytecode \in Codes THEN AnalysisOf[bytecode][responses]
    ELSE analyzeContractRisks(bytecode, Decoded(bytecode, responses))
IsProxy(bytecode) ==
    IF bytecode \in Codes THEN IsProxyOf[bytecode] ELSE detectProxy(bytecode)

\* Every contractData fetchContractCode can return (address left out): any answer
\* of the primary source, of its registry and of the fallback.
FetchResults ==
    UNION {{fetchContractCode("", c, s, r) : s \in SourceResponses(c), r \in CodeResponses} :
              c \in CodeResponses}

-----------------------------------------------------------------------------
(* scanContracts: src/analysis/contractScanner.js lines 9-81                *)

MaxContracts == 5       \* contractAddresses.slice(0, 5)
MaxWithSelectors == 2   \* contracts of a batch whose bytecode has selectors

EmptyResults ==
    [addresses |-> <<>>, verified |-> <<>>, functions |-> <<>>,
     risks |-> <<>>, analysis |-> <<>>]

\* Mutant: the placeholder "0x" is taken for code.
HasNoCodeNullOnly(bytecode) == ~Truthy(bytecode)

\* Line 40: no bytecode, or the placeholder of an address without code.
HasNoCode(bytecode) == ~Truthy(bytecode) \/ bytecode = "0x"

\* Mutant: the handler reports the failure and throws it on.
CatchHandlerRethrow(res, address, message) ==
    [results |-> [res EXCEPT !.risks =
                      Append(@, "Failed to analyze contract " \o address \o ": " \o message)],
     outcome |-> "rethrown"]

\* Lines 69-72: the exception becomes one risk string; the loop goes on.
CatchHandler(res, address, message) ==
    [results |-> [res EXCEPT !.risks =
                      Append(@, "Failed to analyze contract " \o address \o ": " \o message)],
     outcome |-> "caught"]

\* Lines 45-46: the address and its verified flag are recorded as soon as the
\* code is known, before the functions are decoded.
PushContract(res, address, data) ==
    [res EXCEPT !.addresses = Append(@, address),
                !.verified = Append(@, data.verified)]

\* Lines 52-72, once decodeFunctionSelectors has returned: the functions, the
\* risks and the detailed analysis, or the catch handler.
AnalyzeDecoded(r1, address, data, responses) ==
    LET decodedFunctions == Decoded(data.bytecode, responses)
        r2 == [r1 EXCEPT !.functions = @ \o decodedFunctions]
        analysis == Analysis(data.bytecode, responses)
    IN  IF analysis.threw
        THEN CatchHandler(r2, address, analysis.message)
        ELSE [results |->
                 [r2 EXCEPT !.risks = @ \o analysis.risks,
                            !.analysis = Append(@,
                                [address |-> address,
                                 verified |-> data.verified,
                                 sourceCode |-> data.sourceCode,
                                 functions |-> decodedFunctions,
                                 risks |-> analysis.risks,
                                 bytecodeLength |-> Len(data.bytecode),
                                 isProxy |-> IsProxy(data.bytecode)])],
              outcome |-> "analyzed"]

\* One pass of the loop body (lines 34-72) for one address, given what the code
\* source returned and what the signature database answers.
ScanIteration(res, address, data, responses) ==
    IF HasNoCode(data.bytecode)
    THEN [results |-> res, outcome |-> "skipped"]
    ELSE AnalyzeDecoded(PushContract(res, address, data), address, data, responses)

MaxAddressesIn == 6     \* addresses in the argument of scanContracts
AddressCounts == {0, 1, 2, MaxContracts, MaxAddressesIn}

\* The i-th contract address of a page (i < 10): lowercase, 0x and 40 hex digits.
AddressOf(i) == "0x000000000000000000000000000000000000000" \o ToString(i)

\* Mutant: no cap, every address of the input is analyzed.
addressesToAnalyzeAll == contractAddresses

\* Line 31: contractAddresses.slice(0, 5).
addressesToAnalyze == SubSeq(contractAddresses, 1, Min(Len(contractAddresses), MaxContracts))

ScanIdle ==
    /\ contractAddresses = <<>>
    /\ scanPc = "idle"
    /\ scanIndex = 0
    /\ results = EmptyResults
    /\ contractData = <<>>
    /\ scanAnswers = <<>>
    /\ scanLookup = 0
    /\ fetched = <<>>
    /\ caught = <<>>
    /\ lookups = <<>>

\* Lines 9-31: the call, with the early return for an empty list.
StartScan ==
    /\ scanPc = "idle"
    /\ \E n \in AddressCounts :
        /\ contractAddresses' = [i \in 1..n |-> AddressOf(i)]
        /\ scanPc' = IF n = 0 THEN "done" ELSE "loop"
    /\ scanIndex' = 1
    /\ UNCHANGED <<results, contractData, scanAnswers, scanLookup, fetched, caught, lookups>>
    /\ UNCHANGED outsideScan

\* Lines 33-49: fetchContractCode has answered for the next address.  An address
\* without code is skipped; otherwise the address and its flag are pushed, the
\* selectors are extracted and decodeFunctionSelectors is entered.
FetchAddress ==
    /\ scanPc = "loop"
    /\ scanIndex <= Len(addressesToAnalyze)
    /\ LET address == addressesToAnalyze[scanIndex] IN
       \E d \in FetchResults :
       \E responses \in (IF d.bytecode \in Codes THEN ChoicesOf[d.bytecode] ELSE {<<>>}) :
          LET data == [d EXCEPT !.address = address] IN
              /\ (d.bytecode \in Codes /\ Selectors(d.bytecode) # <<>>) =>
                    Cardinality({k \in 1..Len(lookups) : lookups[k].selectors # <<>>})
                        < MaxWithSelectors
              /\ fetched' = Append(fetched, [address |-> address, bytecode |-> d.bytecode])
              /\ IF HasNoCode(data.bytecode)
                 THEN /\ scanIndex' = scanIndex + 1
                      /\ UNCHANGED <<scanPc, results, contractData, scanAnswers, lookups>>
                 ELSE /\ results' = PushContract(results, address, data)
                      /\ contractData' = <<data>>
                      /\ scanAnswers' = responses
                      /\ lookups' = Append(lookups,
                                     [address |-> address,
                                      selectors |-> NextPass(Selectors(data.bytecode),
                                                             <<>>, <<>>).made])
                      /\ scanPc' = "decoding"
                      /\ UNCHANGED scanIndex
    /\ UNCHANGED <<contractAddresses, scanLookup, caught>>
    /\ UNCHANGED outsideScan

\* decodeFunctionSelectors.js lines 15-39 under line 50: the request in flight is
\* answered.  After an answer the pause of line 34 begins; after a failure the
\* catch block goes straight to the next pass, which sends the next request.
LookupSelector ==
    /\ scanPc = "decoding"
    /\ LET selectors == Selectors(contractData[1].bytecode)
           made == lookups[Len(lookups)].selectors IN
          /\ scanLookup < Len(made)
          /\ scanLookup' = scanLookup + 1
          /\ IF scanAnswers[scanLookup + 1].ok
             THEN scanPc' = "delaying" /\ UNCHANGED lookups
             ELSE /\ lookups' = [lookups EXCEPT ![Len(lookups)].selectors =
                                     NextPass(selectors, made, <<>>).made]
                  /\ UNCHANGED scanPc
    /\ UNCHANGED <<contractAddresses, scanIndex, results, contractData, scanAnswers,
                   fetched, caught>>
    /\ UNCHANGED outsideScan

\* decodeFunctionSelectors.js line 34 under line 50: the 100 ms timer fires and
\* the loop goes to its next pass.
LookupDelayOver ==
    /\ scanPc = "delaying"
    /\ scanPc' = "decoding"
    /\ lookups' = [lookups EXCEPT ![Len(lookups)].selectors =
                       NextPass(Selectors(contractData[1].bytecode),
                                lookups[Len(lookups)].selectors, <<>>).made]
    /\ UNCHANGED <<contractAddresses, scanIndex, results, contractData, scanAnswers,
                   scanLookup, fetched, caught>>
    /\ UNCHANGED outsideScan

\* Lines 50-72: decodeFunctionSelectors has returned; the functions, the risks and
\* the analysis of the contract are recorded, or the catch handler runs.
CompleteAddress ==
    /\ scanPc = "decoding"
    /\ scanLookup = Len(LookupsOf(Selectors(contractData[1].bytecode)))
    /\ LET data == contractData[1]
           it == AnalyzeDecoded(results, data.address, data, scanAnswers)
       IN  /\ results' = it.results
           /\ caught' = IF it.outcome \in {"caught", "rethrown"}
                        THEN Append(caught, data.address) ELSE caught
           /\ scanPc' = IF it.outcome = "rethrown" THEN "threw" ELSE "loop"
    /\ scanIndex' = scanIndex + 1
    /\ contractData' = <<>>
    /\ scanAnswers' = <<>>
    /\ scanLookup' = 0
    /\ UNCHANGED <<contractAddresses, fetched, lookups>>
    /\ UNCHANGED outsideScan

\* Lines 75-80: the loop is over, results is returned.
ReturnResults ==
    /\ scanPc = "loop"
    /\ scanIndex > Len(addressesToAnalyze)
    /\ scanPc' = "done"
    /\ UNCHANGED <<contractAddresses, scanIndex, results, contractData, scanAnswers,
                   scanLookup, fetched, caught, lookups>>
    /\ UNCHANGED outsideScan


-----------------------------------------------------------------------------
(* The mock wallet: src/analysis/puppeteerScan.js lines 57-115              *)

MockAccount == "0x742d35Cc6634C0532925a3b8D3Ac92cfF2e5f262"

\* originalRequest: the canned response of a method.
CannedResponse(method) ==
    CASE method = "eth_requestAccounts" -> <<MockAccount>>
      [] method = "eth_accounts" -> <<MockAccount>>
      [] method = "eth_chainId" -> "0x1"
      [] method = "personal_sign" -> "0x" \o Repeat("mock_signature", 10)
      [] method = "eth_signTypedData_v4" -> "0x" \o Repeat("mock_typed_signature", 10)
      [] method = "eth_sendTransaction" -> "0x" \o Repeat("mock_transaction_hash", 8)
      [] OTHER -> NullValue

\* mockProvider.request after line 107: the call is logged, then answered.
WrappedRequest(log, args, now) ==
    [log |-> Append(log, [method |-> args.method, params |-> args.params,
                          timestamp |-> now]),
     response |-> CannedResponse(args.method)]

\* One call of the page on window.ethereum, through the entry point it uses:
\* request(args), the legacy send(method, params), or the legacy enable().
MockWallet(log, call, now) ==
    CASE call.entry = "request" ->
            WrappedRequest(log, [method |-> call.method, params |-> call.params], now)
      [] call.entry = "send" ->
            WrappedRequest(log, [method |-> call.method, params |-> call.params], now)
      [] call.entry = "enable" ->
            [log |-> log, response |-> <<MockAccount>>]

-----------------------------------------------------------------------------
(* The page under test                                                     *)

MaxControls == 11       \* controls on the page
ControlCounts == {0, 1, 2, MaxControls}
\* What the first control of a short list has to be found by: its id, its class
\* attribute, or neither; every other control has an id.
ControlKinds == {"id", "class", "bare"}
MaxActive   == 1        \* controls whose click does more than change the UI
LastActive  == 2        \* the controls after this one only change the UI
MaxTested   == 10       \* Math.min(buttons.length, 10)
MaxReported == 20       \* buttons.slice(0, 20)

\* The value of args.params: absent (undefined), null, or an array of strings.
NoParams == [tag |-> "undefined", items |-> <<>>]
NullParams == [tag |-> "null", items |-> <<>>]
ArrayOf(items) == [tag |-> "array", items |-> items]

Call(entry, method, params, late) ==
    [entry |-> entry, method |-> method, params |-> params, late |-> late]

\* analyzeWebsite's argument.
ProbeUrl == "https://dapp.example/"

\* One request of the page as the 'request' event reports it (lines 38-43).
Request(url, resourceType) == [url |-> url, method |-> "GET", resourceType |-> resourceType]

\* The document at the URL: the wallet calls its scripts make when it loads, its
\* text, the requests it makes while loading and those it makes later on.
Page(calls, text, requests, later) ==
    [calls |-> calls, text |-> text, requests |-> requests, later |-> later]

NoPage == Page(<<>>, "", <<>>, <<>>)

\* The requests a document is going to make, those of its load first.
Planned(page) ==
    [k \in 1..(Len(page.requests) + Len(page.later)) |->
        IF k <= Len(page.requests) THEN [request |-> page.requests[k], late |-> FALSE]
        ELSE [request |-> page.later[k - Len(page.requests)], late |-> TRUE]]

\* The URL a click may load instead.
OtherUrl == "https://other.example/"
LateUrl == "https://api.example/late?pool=0x" \o Repeat("c", 40)

MixedCaseAddress == "0x" \o Repeat("Ab", 20)
PoolUrl == "https://api.example/pool?token=0x" \o Repeat("0", 39) \o "A"

Pages ==
    {Page(<<>>, "Nothing here, 0x1234 is too short", <<Request(ProbeUrl, "document")>>,
          <<Request(LateUrl, "xhr")>>),
     Page(<<Call("request", "eth_accounts", NoParams, FALSE)>>,
          "Pool " \o MixedCaseAddress \o " or " \o ToLowerCase(MixedCaseAddress),
          <<Request(ProbeUrl, "document"),
            Request("https://dapp.example/app.js", "script"),
            Request("https://cdn.example/web3.js", "script"),
            Request(PoolUrl, "xhr"),
            Request(PoolUrl, "xhr")>>, <<>>),
     Page(<<Call("enable", "enable", NoParams, FALSE),
            Call("request", UndefinedValue, ArrayOf(<<>>), FALSE)>>, "",
          <<Request(ProbeUrl, "document"), Request("https://api.example/price", "fetch")>>,
          <<>>)}

\* What a click on a control may do.  found: page.$ returns a handle; throws: the
\* click rejects; calls: the wallet calls of the handler, late ones made after the
\* wait that follows the click; nav: "none", "hash" (the URL changes in the same
\* document) or "document" (a new document is loaded).
Behaviour(found, throws, calls, nav) ==
    [found |-> found, throws |-> throws, calls |-> calls, nav |-> nav]

PlainClick == Behaviour(TRUE, FALSE, <<>>, "none")

LongMessage == Repeat("0123456789", 12)

ActiveBehaviours ==
    {Behaviour(FALSE, FALSE, <<>>, "none"),
     Behaviour(TRUE, TRUE, <<>>, "none"),
     Behaviour(TRUE, FALSE, <<Call("enable", "enable", NoParams, FALSE)>>, "none"),
     Behaviour(TRUE, FALSE,
               <<Call("send", "eth_sendTransaction", ArrayOf(<<"tx">>), FALSE)>>, "none"),
     Behaviour(TRUE, FALSE,
               <<Call("request", "personal_sign", ArrayOf(<<LongMessage, MockAccount>>),
                      FALSE)>>, "none"),
     Behaviour(TRUE, FALSE, <<Call("request", "personal_sign", NoParams, FALSE)>>, "none"),
     Behaviour(TRUE, FALSE, <<Call("request", "eth_signTypedData_v4", NullParams, FALSE)>>,
               "none"),
     Behaviour(TRUE, FALSE, <<Call("request", UndefinedValue, ArrayOf(<<>>), FALSE)>>, "none"),
     Behaviour(TRUE, FALSE, <<Call("request", NullValue, NoParams, TRUE)>>, "none"),
     Behaviour(TRUE, FALSE, <<Call("request", "eth_requestAccounts", NoParams, FALSE),
                              Call("request", "eth_sendTransaction", ArrayOf(<<"tx">>),
                                   FALSE)>>, "none"),
     Behaviour(TRUE, FALSE,
               <<Call("request", "eth_sendTransaction", ArrayOf(<<"tx">>), TRUE)>>, "none"),
     Behaviour(TRUE, FALSE, <<Call("request", "eth_requestAccounts", NoParams, FALSE)>>,
               "hash"),
     Behaviour(TRUE, FALSE, <<>>, "document")}

-----------------------------------------------------------------------------
(* analyzeWebsite: src/analysis/puppeteerScan.js lines 8-252                *)

NoError == [step |-> "", message |-> ""]

\* Mutant: the session is left as it is.
FinallyNoClose(b) == b

\* Lines 247-251: the session is closed when one was launched.
Finally(b) == IF b = "open" THEN "closed" ELSE b

\* Lines 244-246: any exception of the body is thrown on, wrapped.
OuterCatch(step, message) ==
    [step |-> step, message |-> "Frontend analysis failed: " \o message]

\* Lines 195-199: the handler reads button, which is declared by const inside the
\* try block and is not in scope here: evaluating button.text throws a
\* ReferenceError before the two assignments, and the exception leaves the loop.
InnerCatch(bs, i) ==
    [buttons |-> bs, threw |-> TRUE, message |-> "button is not defined"]

\* Lines 178-193: what the test of a clicked control concludes.  action and risk
\* are the values the two fields of the control have afterwards: line 179 assigns
\* the action before line 180 reads method.includes, which throws a TypeError when
\* the first entry has no method.
Classify(interactions, currentUrl) ==
    IF Len(interactions) > 0
    THEN IF ~IsString(interactions[1].method)
         THEN [threw |-> TRUE, message |-> CannotRead(interactions[1].method, "includes"),
               action |-> "Wallet request: " \o TemplateText(interactions[1].method),
               risk |-> "unknown", goBack |-> FALSE]
         ELSE [threw |-> FALSE, message |-> "",
               action |-> "Wallet request: " \o interactions[1].method,
               risk |-> IF Includes(interactions[1].method, "send") THEN "danger"
                        ELSE "warning",
               goBack |-> FALSE]
    ELSE IF currentUrl # "original"
    THEN [threw |-> FALSE, message |-> "", action |-> "Navigation/redirect",
          risk |-> "warning", goBack |-> TRUE]
    ELSE [threw |-> FALSE, message |-> "", action |-> "UI interaction (modal/state change)",
          risk |-> "safe", goBack |-> FALSE]

\* Line 235, i.method.includes('sign'): a TypeError when the entry has no method.
IsSignature(i) ==
    IF IsString(i.method)
    THEN [threw |-> FALSE, message |-> "", value |-> Includes(i.method, "sign")]
    ELSE [threw |-> TRUE, message |-> CannotRead(i.method, "includes"), value |-> FALSE]

\* JSON.stringify of a params value: undefined for undefined, otherwise the text.
RECURSIVE JoinQuoted(_)
JoinQuoted(items) ==
    IF items = <<>> THEN ""
    ELSE "\"" \o Head(items) \o "\"" \o (IF Len(items) > 1 THEN "," ELSE "")
            \o JoinQuoted(Tail(items))

JsonStringify(params) ==
    CASE params.tag = "undefined" -> UndefinedValue
      [] params.tag = "null" -> "null"
      [] params.tag = "array" -> "[" \o JoinQuoted(params.items) \o "]"

SignatureChars == 100   \* .slice(0, 100)

\* Line 236: the text of one signature request; .slice throws a TypeError when
\* JSON.stringify returned undefined.
SignatureText(i) ==
    LET json == JsonStringify(i.params) IN
    IF json = UndefinedValue
    THEN [threw |-> TRUE, message |-> CannotRead(json, "slice"), value |-> ""]
    ELSE [threw |-> FALSE, message |-> "",
          value |-> i.method \o ": " \o SubSeq(json, 1, Min(Len(json), SignatureChars))
                        \o "..."]

\* Lines 234-236: filter, then map; the first exception ends the evaluation.
RECURSIVE FilterSignatures(_)
FilterSignatures(log) ==
    IF log = <<>> THEN [threw |-> FALSE, message |-> "", value |-> <<>>]
    ELSE LET first == IsSignature(Head(log)) IN
         IF first.threw THEN [threw |-> TRUE, message |-> first.message, value |-> <<>>]
         ELSE LET rest == FilterSignatures(Tail(log)) IN
              IF rest.threw THEN rest
              ELSE [rest EXCEPT !.value = (IF first.value THEN <<Head(log)>> ELSE <<>>) \o @]

RECURSIVE MapSignatures(_)
MapSignatures(log) ==
    IF log = <<>> THEN [threw |-> FALSE, message |-> "", value |-> <<>>]
    ELSE LET first == SignatureText(Head(log)) IN
         IF first.threw THEN [threw |-> TRUE, message |-> first.message, value |-> <<>>]
         ELSE LET rest == MapSignatures(Tail(log)) IN
              IF rest.threw THEN rest
              ELSE [rest EXCEPT !.value = <<first.value>> \o @]

Signatures(log) ==
    IF FilterSignatures(log).threw THEN FilterSignatures(log)
    ELSE MapSignatures(FilterSignatures(log).value)

\* [...new Set(list)]: the first occurrence of every element, in order.
RECURSIVE Distinct(_, _)
Distinct(list, seen) ==
    IF list = <<>> THEN seen ELSE Distinct(Tail(list), AddToSet(seen, Head(list)))

\* new URL(url).hostname of an absolute URL without credentials.
Hostname(url) ==
    LET start == (CHOOSE i \in 1..Len(url) : SubSeq(url, i, i + 2) = "://") + 3
        rest == SubSeq(url, start, Len(url))
        stops == {i \in 1..Len(rest) : SubSeq(rest, i, i) \in {"/", ":", "?", "#"}}
        end == IF stops = {} THEN Len(rest)
               ELSE (CHOOSE i \in stops : \A j \in stops : i <= j) - 1
    IN  ToLowerCase(SubSeq(rest, 1, end))

\* Lines 45-53: the request handler's two lists.
IsApiCall(r) == r.resourceType = "xhr" \/ r.resourceType = "fetch"
IsExternalScript(r) ==
    r.resourceType = "script" /\ ~Includes(r.url, Hostname(ProbeUrl))

UrlsOf(requests) == [k \in 1..Len(requests) |-> requests[k].url]

\* text.match(/0x[a-fA-F0-9]{40}/g) from position pos: every leftmost match, each
\* search going on from the end of the match before.
RECURSIVE MatchAddresses(_, _, _)
MatchAddresses(text, pos, found) ==
    IF pos + 41 > Len(text) THEN found
    ELSE IF SubSeq(text, pos, pos + 1) = "0x" /\ AllHex(SubSeq(text, pos + 2, pos + 41))
         THEN MatchAddresses(text, pos + 42, Append(found, SubSeq(text, pos, pos + 41)))
         ELSE MatchAddresses(text, pos + 1, found)

\* Lines 210 and 217: the matches are added in lower case.
RECURSIVE AddLowered(_, _)
AddLowered(set, matches) ==
    IF matches = <<>> THEN set
    ELSE AddLowered(AddToSet(set, ToLowerCase(Head(matches))), Tail(matches))

\* Lines 203-219: the addresses of the page text, then those of the request URLs.
RECURSIVE AddressesOfRequests(_, _)
AddressesOfRequests(set, requests) ==
    IF requests = <<>> THEN set
    ELSE AddressesOfRequests(AddLowered(set, MatchAddresses(Head(requests).url, 1, <<>>)),
                             Tail(requests))

ContractAddresses(pageText, requests) ==
    AddressesOfRequests(AddLowered(<<>>, MatchAddresses(pageText, 1, <<>>)), requests)

\* Date.prototype.toISOString of a time within the first day of the epoch.
Digits(n, width) ==
    IF width = 2 THEN ToString(n \div 10) \o ToString(n % 10)
    ELSE ToString(n \div 100) \o ToString((n \div 10) % 10) \o ToString(n % 10)

ToISOString(ms) ==
    "1970-01-01T" \o Digits(ms \div 3600000, 2) \o ":" \o Digits((ms \div 60000) % 60, 2)
        \o ":" \o Digits((ms \div 1000) % 60, 2) \o "." \o Digits(ms % 1000, 3) \o "Z"

MaxListed == 10         \* .slice(0, 10) of apiCalls and of externalScripts

\* Lines 224-242: the findings returned, or the exception of lines 235-236.
\* addresses is the set lines 203-219 collected before the log was read; the
\* lists of requests are read now.
Findings(bs, allWalletInteractions, requests, addresses, now) ==
    LET signatures == Signatures(allWalletInteractions)
        apiCalls == Distinct(UrlsOf(SelectSeq(requests, IsApiCall)), <<>>)
        externalScripts == Distinct(UrlsOf(SelectSeq(requests, IsExternalScript)), <<>>)
    IN  [threw |-> signatures.threw,
         message |-> signatures.message,
         value |-> [url |-> ProbeUrl,
                    timestamp |-> ToISOString(now),
                    buttons |-> SubSeq(bs, 1, Min(Len(bs), MaxReported)),
                    signatures |-> signatures.value,
                    apiCalls |-> SubSeq(apiCalls, 1, Min(Len(apiCalls), MaxListed)),
                    externalScripts |->
                        SubSeq(externalScripts, 1, Min(Len(externalScripts), MaxListed)),
                    contracts |-> addresses,
                    networkRequests |-> Len(requests),
                    walletInteractions |-> allWalletInteractions]]

\* Lines 143-150: a control as it is listed, not yet tested.
Control(text, element, classes, id) ==
    [text |-> text, element |-> element, classes |-> classes, id |-> id,
     action |-> "unknown", risk |-> "unknown"]

\* The n controls of a page, the first one of the given kind.
ControlsOf(n, kind) ==
    [k \in 1..n |->
        Control("Button " \o ToString(k), "button",
                IF k = 1 /\ kind = "class" THEN "btn primary" ELSE "",
                IF k = 1 /\ kind # "id" THEN "" ELSE "b" \o ToString(k))]

\* classes.split(' ')[0]
RECURSIVE FirstWord(_, _)
FirstWord(text, pos) ==
    IF pos > Len(text) \/ SubSeq(text, pos, pos) = " " THEN SubSeq(text, 1, pos - 1)
    ELSE FirstWord(text, pos + 1)

\* Lines 160-162: the selector the control is looked up by.
Selector(button) ==
    IF button.id # "" THEN "#" \o button.id
    ELSE IF button.classes # "" THEN "." \o FirstWord(button.classes, 1)
    ELSE button.element \o ":contains(\"" \o button.text \o "\")"

\* Line 170: page.$ rejects a selector that is not CSS, as querySelector does;
\* :contains() is not CSS.
IsCssSelector(selector) == ~Includes(selector, ":contains(")

ProbeIdle ==
    /\ probePc = "idle"
    /\ browser = "none"
    /\ pageUrl = "original"
    /\ walletInteractions = <<>>
    /\ onLoad = NoPage
    /\ pending = <<>>
    /\ pendingRequests = <<>>
    /\ networkRequests = <<>>
    /\ clock = 0
    /\ buttons = <<>>
    /\ testIndex = 1
    /\ active = 0
    /\ probeAddresses = <<>>
    /\ probeResult = <<>>
    /\ probeError = NoError
    /\ sessionLog = <<>>
    /\ testLog = <<>>

\* The analyzer's own variables, which the page does not touch.
analyzerVars == <<probePc, browser, buttons, testIndex, active, probeAddresses, probeResult,
                  probeError, testLog>>

\* The page and what it has done.
pageVars == <<pageUrl, walletInteractions, onLoad, pending, pendingRequests,
              networkRequests, clock, sessionLog>>

\* What the analyzer has found so far.
foundVars == <<buttons, testIndex, active, probeAddresses, probeResult, testLog>>

\* The body threw at `step`: the outer catch, then the finally block, which has a
\* session to close unless the launch itself failed.
Fail(step, message) ==
    /\ probeError' = OuterCatch(step, message)
    /\ probePc' = IF browser = "open" THEN "closing" ELSE "failed"
    /\ browser' = browser

\* Lines 14-25: puppeteer.launch, which may reject.
Launch ==
    /\ probePc = "idle"
    /\ \/ /\ browser' = "open"
          /\ probePc' = "launched"
          /\ UNCHANGED probeError
       \/ Fail("launch", "Failed to launch the browser process")
    /\ UNCHANGED <<pageVars, foundVars>>
    /\ UNCHANGED outsideProbe

\* The four awaited calls that prepare the page, in order: newPage (line 27),
\* setViewport (30), setUserAgent (31) and evaluateOnNewDocument (57).
SetupSteps ==
    <<[at |-> "launched", call |-> "newPage", to |-> "paged"],
      [at |-> "paged", call |-> "setViewport", to |-> "sized"],
      [at |-> "sized", call |-> "setUserAgent", to |-> "named"],
      [at |-> "named", call |-> "evaluateOnNewDocument", to |-> "injected"]>>

\* Lines 27-115: one of the calls that prepare the page returns, or rejects.
SetUpPage ==
    /\ \E k \in 1..Len(SetupSteps) :
          /\ probePc = SetupSteps[k].at
          /\ \/ /\ probePc' = SetupSteps[k].to
                /\ UNCHANGED <<browser, probeError>>
             \/ Fail(SetupSteps[k].call, "Protocol error: Target closed")
    /\ UNCHANGED <<pageVars, foundVars>>
    /\ UNCHANGED outsideProbe

\* Line 119, page.goto pending: the document of the URL is committed; its scripts
\* start to run and its resources to load.
LoadPage ==
    /\ probePc = "injected"
    /\ \E page \in Pages :
          /\ onLoad' = page
          /\ pending' = page.calls
          /\ pendingRequests' = Planned(page)
    /\ probePc' = "loading"
    /\ UNCHANGED <<browser, probeError, pageUrl, walletInteractions, networkRequests, clock,
                   sessionLog>>
    /\ UNCHANGED foundVars
    /\ UNCHANGED outsideProbe

\* Line 119: page.goto rejects, before the document is there or while it loads.
GotoFails ==
    /\ probePc \in {"injected", "loading"}
    /\ Fail("goto", "Navigation timeout of 30000 ms exceeded")
    /\ UNCHANGED <<pageVars, foundVars>>
    /\ UNCHANGED outsideProbe

\* waitUntil: 'networkidle0': every request of the load has been made.
NetworkIdle == \A k \in 1..Len(pendingRequests) : pendingRequests[k].late

\* Line 119: page.goto resolves once the network is idle.
GotoReturns ==
    /\ probePc = "loading"
    /\ NetworkIdle
    /\ probePc' = "settling"
    /\ UNCHANGED <<browser, probeError>>
    /\ UNCHANGED <<pageVars, foundVars>>
    /\ UNCHANGED outsideProbe

\* The states in which a document and its scripts are alive.
PageAlive ==
    probePc \in {"loading", "settling", "content", "testing", "cleared", "found", "clicked",
                 "waited", "goingBack", "backLoading", "reading", "closing"}

\* A script of the page calls window.ethereum.
PageCallsWallet ==
    /\ PageAlive
    /\ pending # <<>>
    /\ LET r == MockWallet(walletInteractions, Head(pending), clock + 1) IN
        /\ walletInteractions' = r.log
        /\ sessionLog' = sessionLog \o SubSeq(r.log, Len(walletInteractions) + 1, Len(r.log))
    /\ pending' = Tail(pending)
    /\ clock' = clock + 1
    /\ UNCHANGED <<pageUrl, onLoad, pendingRequests, networkRequests>>
    /\ UNCHANGED analyzerVars
    /\ UNCHANGED outsideProbe

\* Lines 38-54: the page makes a request, at any time of its life, and the
\* 'request' handler records it.
PageRequests ==
    /\ PageAlive
    /\ pendingRequests # <<>>
    /\ networkRequests' = Append(networkRequests, Head(pendingRequests).request)
    /\ pendingRequests' = Tail(pendingRequests)
    /\ UNCHANGED <<pageUrl, walletInteractions, onLoad, pending, clock, sessionLog>>
    /\ UNCHANGED analyzerVars
    /\ UNCHANGED outsideProbe

\* Every call the scripts make without delay has been made.
NoCallDue == \A k \in 1..Len(pending) : pending[k].late

\* Lines 125-128: the settle delay is over and page.content() is called.
SettleOver ==
    /\ probePc = "settling"
    /\ NoCallDue
    /\ probePc' = "content"
    /\ UNCHANGED <<browser, probeError>>
    /\ UNCHANGED <<pageVars, foundVars>>
    /\ UNCHANGED outsideProbe

\* Lines 128-155: the content is read and the controls are listed, each with
\* action and risk 'unknown'; or page.content() rejects.
DiscoverControls ==
    /\ probePc = "content"
    /\ \/ /\ \E n \in ControlCounts, kind \in ControlKinds :
                /\ kind # "id" => n \in {1, 2}
                /\ buttons' = ControlsOf(n, kind)
          /\ probePc' = "testing"
          /\ UNCHANGED <<browser, probeError>>
       \/ /\ Fail("content", "Execution context was destroyed, most likely because of "
                                \o "a navigation.")
          /\ UNCHANGED buttons
    /\ UNCHANGED <<testIndex, active, probeAddresses, probeResult, testLog>>
    /\ UNCHANGED pageVars
    /\ UNCHANGED outsideProbe

\* A step of the test of a control rejected: the inner catch, whose ReferenceError
\* reaches the outer catch.
TestThrows ==
    /\ Fail("control", InnerCatch(buttons, testIndex).message)
    /\ buttons' = InnerCatch(buttons, testIndex).buttons

\* Lines 158-167: the log of the document is cleared, or page.evaluate rejects.
ClearLog ==
    /\ probePc = "testing"
    /\ testIndex <= Min(Len(buttons), MaxTested)
    /\ \/ /\ walletInteractions' = <<>>
          /\ probePc' = "cleared"
          /\ UNCHANGED <<browser, probeError, buttons>>
       \/ /\ TestThrows
          /\ UNCHANGED walletInteractions
    /\ UNCHANGED <<pageUrl, onLoad, pending, pendingRequests, networkRequests, clock,
                   sessionLog>>
    /\ UNCHANGED <<testIndex, active, probeAddresses, probeResult, testLog>>
    /\ UNCHANGED outsideProbe

\* Lines 170-171: the element is looked up; without a handle nothing more is done
\* for this control.  page.$ rejects when the selector is not CSS, and may reject
\* as any call of the page may.
FindControl ==
    /\ probePc = "cleared"
    /\ \/ /\ IsCssSelector(Selector(buttons[testIndex]))
          /\ \E b \in {PlainClick} \cup (IF active < MaxActive /\ testIndex <= LastActive
                                        THEN ActiveBehaviours ELSE {}) :
              /\ active' = IF b = PlainClick THEN active ELSE active + 1
              /\ testLog' = Append(testLog, b)
              /\ IF b.found
                 THEN probePc' = "found" /\ UNCHANGED testIndex
                 ELSE probePc' = "testing" /\ testIndex' = testIndex + 1
          /\ UNCHANGED <<browser, probeError, buttons>>
       \/ /\ TestThrows
          /\ UNCHANGED <<testIndex, active, testLog>>
    /\ UNCHANGED <<probeAddresses, probeResult>>
    /\ UNCHANGED pageVars
    /\ UNCHANGED outsideProbe

\* Line 172: the element is clicked and its handlers run, or the click rejects.
\* A click that loads another document makes the request of that document.
ClickControl ==
    /\ probePc = "found"
    /\ LET b == testLog[Len(testLog)] IN
       IF b.throws
       THEN /\ TestThrows
            /\ UNCHANGED <<pageUrl, walletInteractions, pending, pendingRequests,
                           networkRequests>>
       ELSE /\ probePc' = "clicked"
            /\ IF b.nav = "document"
               THEN \* a new document: fresh log, the old scripts are gone
                    /\ pageUrl' = "other"
                    /\ walletInteractions' = <<>>
                    /\ pending' = <<>>
                    /\ pendingRequests' = <<>>
                    /\ networkRequests' = Append(networkRequests,
                                                 Request(OtherUrl, "document"))
               ELSE /\ pageUrl' = IF b.nav = "hash" THEN "other" ELSE pageUrl
                    /\ pending' = pending \o b.calls
                    /\ UNCHANGED <<walletInteractions, pendingRequests, networkRequests>>
            /\ UNCHANGED <<browser, probeError, buttons>>
    /\ UNCHANGED <<onLoad, clock, sessionLog>>
    /\ UNCHANGED <<testIndex, active, probeAddresses, probeResult, testLog>>
    /\ UNCHANGED outsideProbe

\* Line 173: the wait after the click is over.
WaitAfterClick ==
    /\ probePc = "clicked"
    /\ NoCallDue
    /\ probePc' = "waited"
    /\ UNCHANGED <<browser, probeError>>
    /\ UNCHANGED <<pageVars, foundVars>>
    /\ UNCHANGED outsideProbe

\* Lines 176-193: the log and the URL are read and the control is classified; after
\* a navigation page.goto is called for the original URL.  The read may reject.
ClassifyControl ==
    /\ probePc = "waited"
    /\ \/ LET c == Classify(walletInteractions, pageUrl) IN
          IF c.threw
          THEN /\ Fail("control", InnerCatch(buttons, testIndex).message)
               /\ buttons' = [InnerCatch(buttons, testIndex).buttons
                                 EXCEPT ![testIndex].action = c.action]
               /\ UNCHANGED testIndex
          ELSE /\ buttons' = [buttons EXCEPT ![testIndex].action = c.action,
                                             ![testIndex].risk = c.risk]
               /\ probePc' = IF c.goBack THEN "goingBack" ELSE "testing"
               /\ testIndex' = IF c.goBack THEN testIndex ELSE testIndex + 1
               /\ UNCHANGED <<browser, probeError>>
       \/ /\ TestThrows
          /\ UNCHANGED testIndex
    /\ UNCHANGED <<active, probeAddresses, probeResult, testLog>>
    /\ UNCHANGED pageVars
    /\ UNCHANGED outsideProbe

\* Line 188, page.goto pending: the original document is committed anew; its
\* scripts run again and its resources load again.
BackLoads ==
    /\ probePc = "goingBack"
    /\ probePc' = "backLoading"
    /\ pageUrl' = "original"
    /\ walletInteractions' = <<>>
    /\ pending' = onLoad.calls
    /\ pendingRequests' = Planned(onLoad)
    /\ UNCHANGED <<browser, probeError, onLoad, networkRequests, clock, sessionLog>>
    /\ UNCHANGED foundVars
    /\ UNCHANGED outsideProbe

\* Line 188: page.goto rejects, before the document is there or while it loads.
GoBackFails ==
    /\ probePc \in {"goingBack", "backLoading"}
    /\ TestThrows
    /\ UNCHANGED <<testIndex, active, probeAddresses, probeResult, testLog>>
    /\ UNCHANGED pageVars
    /\ UNCHANGED outsideProbe

\* Lines 188-200: page.goto resolves and the loop goes to the next control.
GoBackReturns ==
    /\ probePc = "backLoading"
    /\ NetworkIdle
    /\ NoCallDue
    /\ probePc' = "testing"
    /\ testIndex' = testIndex + 1
    /\ UNCHANGED <<browser, probeError, buttons, active, probeAddresses, probeResult,
                   testLog>>
    /\ UNCHANGED pageVars
    /\ UNCHANGED outsideProbe

\* Lines 202-222: after the loop the addresses of the page text and of the
\* requests recorded so far are collected, and the log is asked for once more.
CollectAddresses ==
    /\ probePc = "testing"
    /\ testIndex > Min(Len(buttons), MaxTested)
    /\ probeAddresses' = ContractAddresses(onLoad.text, networkRequests)
    /\ probePc' = "reading"
    /\ UNCHANGED <<browser, probeError, buttons, testIndex, active, probeResult, testLog>>
    /\ UNCHANGED pageVars
    /\ UNCHANGED outsideProbe

\* Lines 222-242: the log has been read and the value to return is built from it
\* and from the requests recorded by now; the read may reject and lines 235-236
\* may throw.
ReadLog ==
    /\ probePc = "reading"
    /\ \/ LET f == Findings(buttons, walletInteractions, networkRequests, probeAddresses,
                            clock) IN
          IF f.threw
          THEN Fail("return", f.message) /\ UNCHANGED probeResult
          ELSE /\ probeResult' = <<f.value>>
               /\ probePc' = "closing"
               /\ UNCHANGED <<browser, probeError>>
       \/ /\ Fail("evaluate", "Execution context was destroyed")
          /\ UNCHANGED probeResult
    /\ UNCHANGED <<buttons, testIndex, active, probeAddresses, testLog>>
    /\ UNCHANGED pageVars
    /\ UNCHANGED outsideProbe

\* Lines 247-251: the finally block has run, browser.close() being awaited when a
\* browser was launched.  When it resolves the value is returned or the wrapped
\* exception thrown; when it rejects its own error leaves analyzeWebsite in
\* their place.
Close ==
    /\ probePc = "closing"
    /\ \/ /\ browser' = Finally(browser)
          /\ probePc' = IF probeError = NoError THEN "returned" ELSE "failed"
          /\ UNCHANGED <<probeResult, probeError>>
       \/ /\ browser = "open"
          /\ browser' = Finally(browser)
          /\ probePc' = "failed"
          /\ probeError' = [step |-> "close", message |-> "Protocol error: Connection closed."]
          /\ probeResult' = <<>>
    /\ UNCHANGED <<buttons, testIndex, active, probeAddresses, testLog>>
    /\ UNCHANGED pageVars
    /\ UNCHANGED outsideProbe

-----------------------------------------------------------------------------
(* Calls of the selector resolver: src/utils/decodeFunctionSelectors.js     *)

MaxSelectorsIn == 11    \* selectors passed to one call

\* The i-th selector of the inputs: table entries and others.
SelectorAt(i) ==
    CASE i = 1 -> "0xa9059cbb"
      [] i = 2 -> "0xdeadbeef"
      [] i = 3 -> "0xf2fde38b"
      [] OTHER -> "0x000000" \o (IF i < 10 THEN "0" ELSE "") \o ToString(i)

\* n selectors from the off-th on.
SelectorsFrom(off, n) == [k \in 1..n |-> SelectorAt(k + off)]

DecodeIdle ==
    /\ decodePc = "idle"
    /\ selectorsIn = <<>>
    /\ lookupAnswers = <<>>
    /\ functionsOut = <<>>
    /\ lookupsMade = <<>>
    /\ decodeTrace = <<>>

\* Lines 6-16: the call, up to its first request (or its return when there is no
\* selector to look up).
CallDecode ==
    /\ decodePc = "idle"
    /\ \E off \in 0..1, n \in 0..MaxSelectorsIn, base \in LookupKinds,
          odd \in 1..MaxLookups, oddKind \in LookupKinds :
          LET selectors == SelectorsFrom(off, n)
              first == NextPass(selectors, <<>>, <<>>) IN
            /\ selectorsIn' = selectors
            /\ lookupAnswers' = AnswersFor(selectors, base, odd, oddKind)
            /\ lookupsMade' = first.made
            /\ decodeTrace' = first.trace
            /\ decodePc' = first.pc
    /\ functionsOut' = <<>>
    /\ UNCHANGED outsideDecode

\* Lines 17-39: the request in flight is answered.  An answer is decoded and the
\* pause of line 34 begins; a failure goes through the catch block, which pushes
\* its placeholder and goes straight to the next pass.
LookupAnswered ==
    /\ decodePc = "looking"
    /\ LET i == Len(lookupsMade)
           resp == lookupAnswers[i]
           next == NextPass(selectorsIn, lookupsMade, decodeTrace) IN
          /\ functionsOut' = Append(functionsOut, DecodeOne(lookupsMade[i], resp))
          /\ IF resp.ok
             THEN /\ decodePc' = "delaying"
                  /\ decodeTrace' = Append(decodeTrace, "delay")
                  /\ UNCHANGED lookupsMade
             ELSE /\ decodePc' = next.pc
                  /\ lookupsMade' = next.made
                  /\ decodeTrace' = next.trace
    /\ UNCHANGED <<selectorsIn, lookupAnswers>>
    /\ UNCHANGED outsideDecode

\* Line 34: the 100 ms timer fires and the loop goes to its next pass.
DelayOver ==
    /\ decodePc = "delaying"
    /\ LET next == NextPass(selectorsIn, lookupsMade, decodeTrace) IN
          /\ decodePc' = next.pc
          /\ lookupsMade' = next.made
          /\ decodeTrace' = next.trace
    /\ UNCHANGED <<selectorsIn, lookupAnswers, functionsOut>>
    /\ UNCHANGED outsideDecode

\* One call of getFunctionSignature (lines 82-84).
ResolveFromTable ==
    /\ decodePc = "idle"
    /\ \E i \in 1..(MaxSelectorsIn + 1) :
          /\ selectorsIn' = <<SelectorAt(i)>>
          /\ functionsOut' = <<getFunctionSignature(SelectorAt(i))>>
    /\ lookupAnswers' = <<>>
    /\ lookupsMade' = <<>>
    /\ decodeTrace' = <<>>
    /\ decodePc' = "resolved"
    /\ UNCHANGED outsideDecode

-----------------------------------------------------------------------------
(* Claims about the selector resolver                                      *)

\* C11: a selector of the static table resolves to its table signature whatever
\* the signature database answers (in particular when the network is unavailable).
C11_TableSignatureWithoutNetwork ==
    decodePc = "decoded" =>
        \A i \in 1..Len(functionsOut) :
            selectorsIn[i] \in DOMAIN COMMON_SELECTORS =>
                functionsOut[i] = COMMON_SELECTORS[selectorsIn[i]]

\* C21: lookups are issued one at a time and between any two consecutive lookups
\* the delay step is executed, whether the earlier lookup succeeded, returned no
\* match or failed.
C21_DelayBetweenLookups ==
    \A k \in 1..(Len(decodeTrace) - 1) :
        decodeTrace[k] = "lookup" => decodeTrace[k + 1] = "delay"

\* C12: decodeFunctionSelectors returns one entry per processed selector (the
\* first 10), in input order: 'Failed to decode: <selector>' when the lookup
\* failed, 'Unknown function: <selector>' when it returned no candidate, and the
\* first candidate's signature otherwise.
C12_OneEntryPerSelector ==
    decodePc = "decoded" =>
        /\ Len(functionsOut) = Min(Len(selectorsIn), 10)
        /\ \A i \in 1..Len(functionsOut) :
              functionsOut[i] =
                  IF ~lookupAnswers[i].ok THEN "Failed to decode: " \o selectorsIn[i]
                  ELSE IF lookupAnswers[i].results = <<>>
                  THEN "Unknown function: " \o selectorsIn[i]
                  ELSE lookupAnswers[i].results[1]

\* C12 witness: more than 10 selectors, with a failed lookup and an empty one.
C12_Witness ==
    /\ decodePc = "decoded"
    /\ Len(selectorsIn) > 10
    /\ \E i \in 1..Len(functionsOut) : functionsOut[i] = "Failed to decode: " \o selectorsIn[i]
    /\ \E i \in 1..Len(functionsOut) : functionsOut[i] = "Unknown function: " \o selectorsIn[i]

-----------------------------------------------------------------------------
(* Inputs of the aggregator                                                *)

MaxButtonsIn   == 3     \* controls in a FrontendFindings argument
MaxContractsIn == 1     \* contracts in a ContractFindings argument
MaxRisksIn     == 2     \* contract risk strings in a ContractFindings argument

SeqsUpTo(S, n) == UNION {[1..k -> S] : k \in 0..n}

RiskValues == {"safe", "warning", "danger", "unknown"}

\* Script counts on both sides of the "more than 3" threshold.
ScriptCounts == {0, 3, 4}

ScriptUrl(i) == "https://cdn.example/" \o ToString(i) \o ".js"

FrontendInputs ==
    {[buttons |-> [i \in 1..Len(rs) |-> [risk |-> rs[i]]],
      externalScripts |-> [i \in 1..n |-> ScriptUrl(i)]] :
        rs \in SeqsUpTo(RiskValues, MaxButtonsIn), n \in ScriptCounts}

ContractInputs ==
    {[addresses |-> [i \in 1..Len(vs) |-> AddressOf(i)],
      verified |-> vs,
      risks |-> rk] :
        vs \in SeqsUpTo(BOOLEAN, MaxContractsIn),
        rk \in SeqsUpTo(RiskPool, MaxRisksIn)}

NoFrontend == [buttons |-> <<>>, externalScripts |-> <<>>]
NoContracts == [addresses |-> <<>>, verified |-> <<>>, risks |-> <<>>]

RiskIdle ==
    /\ frontendAnalysis = NoFrontend
    /\ contractAnalysis = NoContracts
    /\ riskSummary = <<>>

\* generateReport line 11: one call of calculateRiskSummary on one pair of findings.
CalculateRisk ==
    /\ riskSummary = <<>>
    /\ \E fa \in FrontendInputs, ca \in ContractInputs :
        /\ frontendAnalysis' = fa
        /\ contractAnalysis' = ca
        /\ riskSummary' = <<calculateRiskSummary(fa, ca)>>
    /\ UNCHANGED outsideRisk

-----------------------------------------------------------------------------
(* Direct calls of detectProxy: src/analysis/contractScanner.js 156-166     *)

MaxChunks == 3          \* pieces a bytecode argument is made of

\* Pieces of bytecode: the three patterns in both letter cases, their halves
\* and bytes around them.
Chunks ==
    {"60", "f4", "F4", "0f", "0F", "40", "ff", "6010600a", "6010600A", "6010",
     "600a", "60008060208180", "6000806020"}

RECURSIVE Concat(_)
Concat(pieces) == IF pieces = <<>> THEN "" ELSE Head(pieces) \o Concat(Tail(pieces))

BytecodeInputs == {"0x" \o Concat(pieces) : pieces \in SeqsUpTo(Chunks, MaxChunks)}

ByteIdle ==
    /\ byteFn = ""
    /\ byteIn = ""
    /\ byteFunctions = <<>>
    /\ byteOut = <<>>

DetectProxyCall ==
    /\ byteFn = ""
    /\ \E bytecode \in BytecodeInputs :
        /\ byteIn' = bytecode
        /\ byteOut' = <<detectProxy(bytecode)>>
    /\ byteFn' = "detectProxy"
    /\ UNCHANGED byteFunctions
    /\ UNCHANGED outsideByte

\* Pieces of bytecode around the PUSH4 marker: whole PUSH4 instructions in both
\* letter cases, markers on their own, operands on their own, a non-hex piece.
SelectorChunks ==
    {"63a9059cbb", "6318160ddd", "63A9059CBB", "63", "6363", "a9059cbb", "60", "0g"}

SelectorInputs == {"0x" \o Concat(pieces) : pieces \in SeqsUpTo(SelectorChunks, MaxChunks)}

ExtractSelectorsCall ==
    /\ byteFn = ""
    /\ \E bytecode \in SelectorInputs :
        /\ byteIn' = bytecode
        /\ byteOut' = <<extractFunctionSelectors(bytecode)>>
    /\ byteFn' = "extractFunctionSelectors"
    /\ UNCHANGED byteFunctions
    /\ UNCHANGED outsideByte

\* A bytecode string of len characters (len even) ending with the bytes tail.
Padded(len, tail) == "0x" \o Repeat("00", (len - 2 - Len(tail)) \div 2) \o tail

\* Bytecodes with the opcode bytes in both letter cases and in any order, and
\* the proxy pattern without a DELEGATECALL byte.
RiskBytecodes ==
    {"0x6080", "0x60FF", "0x60f4f1", "0x6010600a", "0xf2F1f4ff", "0x600f10"}


\* Decoded functions: signatures with no, one and two dangerous keywords, in
\* other letter cases, a placeholder, and an entry that is not a string.
FunctionPool ==
    {"transfer(address,uint256)", "transferOwnership(address)",
     "TRANSFEROWNERSHIP(address)", "selfdestructViaDelegateCall()",
     "Unknown function: 0xdeadbeef", NullValue, UndefinedValue}

\* Calls with a bytecode as long as the large-contract limit, and longer.
LargeCalls ==
    {<<Padded(LargeContractLength, ""), <<>>>>,
     <<Padded(LargeContractLength + 2, "F1"),
       <<"selfdestructViaDelegateCall()", "transfer(address,uint256)">>>>}

MaxFunctionsIn == 2     \* decoded functions in the argument of analyzeContractRisks

AnalyzeRisksCall ==
    /\ byteFn = ""
    /\ \E call \in (RiskBytecodes \X SeqsUpTo(FunctionPool, MaxFunctionsIn))
                    \cup LargeCalls :
       LET bytecode == call[1]
           functions == call[2]
       IN
        /\ byteIn' = bytecode
        /\ byteFunctions' = functions
        /\ byteOut' = <<analyzeContractRisks(bytecode, functions)>>
    /\ byteFn' = "analyzeContractRisks"
    /\ UNCHANGED outsideByte

\* s contains pat at some position, letter case aside.
ContainsAnyCase(s, pat) ==
    \E i \in 1..(Len(s) - Len(pat) + 1) :
        \A k \in 1..Len(pat) :
            LowerChar(SubSeq(s, i + k - 1, i + k - 1)) = SubSeq(pat, k, k)

\* C15: detectProxy returns true for every bytecode that contains 'f4' in any
\* letter case, and returns true iff the bytecode contains, letter case aside,
\* one of '6010600a', 'f4', '60008060208180'.
C15_ProxyPredicate ==
    byteFn = "detectProxy" =>
        /\ ContainsAnyCase(byteIn, "f4") => byteOut[1] = TRUE
        /\ byteOut[1] = (\/ ContainsAnyCase(byteIn, "6010600a")
                         \/ ContainsAnyCase(byteIn, "f4")
                         \/ ContainsAnyCase(byteIn, "60008060208180"))

\* C15 witness: a bytecode whose only match is an upper-case 'F4' formed by two
\* neighbouring bytes is reported as a proxy.
C15_Witness ==
    /\ byteFn = "detectProxy"
    /\ byteIn = "0x0F40"
    /\ byteOut[1] = TRUE

-----------------------------------------------------------------------------
(* One scan: src/cli/scan.js lines 26-149 and the POST /api/analyze handler *)
(* (src/utils/generateReport.js lines 207-254) of the module of the API    *)

Entries == {"cli", "api"}
Urls == {"https://dapp.example", "not a url", ""}
Formats == {"json", "md", "both"}

ValidUrl(url) == url = "https://dapp.example"

\* Findings analyzeWebsite may return.
RunFrontends ==
    {[buttons |-> <<>>, externalScripts |-> <<>>, walletInteractions |-> <<>>,
      contracts |-> <<>>],
     [buttons |-> <<[risk |-> "danger"]>>, externalScripts |-> <<>>,
      walletInteractions |-> <<"eth_sendTransaction">>, contracts |-> <<AddressOf(1)>>],
     [buttons |-> <<[risk |-> "warning"], [risk |-> "safe"]>>,
      externalScripts |-> <<ScriptUrl(1)>>, walletInteractions |-> <<>>,
      contracts |-> <<AddressOf(1)>>]}

\* scanContracts on the addresses left to analyze, from the findings so far:
\* every result the loop of lines 33-73 can end with, one fetch answer and one
\* set of lookup answers per address.
RECURSIVE ScanFrom(_, _)
ScanFrom(res, addresses) ==
    IF addresses = <<>>
    THEN {res}
    ELSE UNION {UNION {ScanFrom(ScanIteration(res, Head(addresses),
                                              [d EXCEPT !.address = Head(addresses)],
                                              responses).results,
                                Tail(addresses)) :
                          responses \in (IF d.bytecode \in Codes
                                         THEN ChoicesOf[d.bytecode] ELSE {<<>>})} :
                  d \in FetchResults}

\* Findings scanContracts may return for these addresses.
RunContractsFor(addresses) ==
    ScanFrom(EmptyResults, SubSeq(addresses, 1, Min(Len(addresses), MaxContracts)))

\* generateScanId: a time stamp and random digits.
ScanIds == {"scan_lx1_a1b2c3", "scan_lx2_d4e5f6"}

\* generateReport (src/utils/generateReport.js lines 4-76).
generateReport(url, fa, ca, scanId) ==
    [scanId |-> scanId,
     url |-> url,
     frontendAnalysis |->
        [summary |-> [buttonsAnalyzed |-> Len(fa.buttons),
                      walletInteractions |-> Len(fa.walletInteractions),
                      externalScripts |-> Len(fa.externalScripts)]],
     contractAnalysis |->
        [summary |-> [contractsFound |-> Len(ca.addresses),
                      verifiedContracts |-> Len(SelectSeq(ca.verified, IsTrue)),
                      functionsDetected |-> Len(ca.functions),
                      risksIdentified |-> Len(ca.risks)]],
     riskSummary |-> calculateRiskSummary(fa, ca)]

NoRequest == [entry |-> "", url |-> "", format |-> "", timeout |-> 0]
NoOutcome == [kind |-> "none", code |-> 0, error |-> ""]

RunIdle ==
    /\ runPc = "idle"
    /\ runRequest = NoRequest
    /\ runFrontend = <<>>
    /\ runContracts = <<>>
    /\ report = <<>>
    /\ savedFiles = {}
    /\ runOutcome = NoOutcome
    /\ runPhases = <<>>
    /\ runClock = 0

\* Mutant: an exception of a phase is swallowed and the next phase is started.
AfterPhaseIgnoreThrow(next, threw) == next

\* The try block of both handlers: the statement after an await runs when the
\* awaited call returned; when it threw, control is in the catch block.
AfterPhase(next, threw) == IF threw THEN "failed" ELSE next

\* The catch block: scan.js lines 140-148 (message, exit code 1) and
\* generateReport.js lines 247-253 (status 500 with the message).
Caught(entry, message) ==
    [kind |-> "error", code |-> IF entry = "cli" THEN 1 ELSE 500, error |-> message]

\* scan.js line 24: --timeout <seconds>, 'Analysis timeout in seconds'.
DefaultTimeout == 60
TimeoutOptions == {10, DefaultTimeout}

\* Seconds analyzeWebsite may take: the waits of lines 125 and 173 on a page
\* with few controls, and a page that loads slowly (up to 30 s, line 121) and
\* has ten controls that are slow to click.
ProbeSeconds == {5, 70}

\* Seconds scanContracts may take: nothing to fetch, or sources and lookups that
\* answer shortly before their own timeouts (10 s and 5 s a request).
ScanSeconds(addresses) == IF addresses = <<>> THEN {0} ELSE {2, 40}

\* The action is entered: the URL is validated (new URL(url) in the CLI, the
\* presence test of the API, which answers 400) and analyzeWebsite is called.
\* The handler of the API is entered only once its route is registered.
ReceiveRequest ==
    /\ \E entry \in Entries, url \in Urls, format \in Formats, timeout \in TimeoutOptions :
        /\ runPc = IF entry = "cli" THEN "idle" ELSE "listening"
        /\ entry = "api" => (format = "json" /\ timeout = DefaultTimeout)
        /\ runRequest' = [entry |-> entry, url |-> url, format |-> format,
                          timeout |-> IF entry = "cli" THEN timeout ELSE 0]
        /\ IF entry = "cli" /\ ~ValidUrl(url)
           THEN /\ runPc' = AfterPhase("probing", TRUE)
                /\ runOutcome' = Caught(entry, "Invalid URL")
                /\ UNCHANGED runPhases
           ELSE IF entry = "api" /\ url = ""
           THEN /\ runPc' = "failed"
                /\ runOutcome' = [kind |-> "error", code |-> 400, error |-> "URL is required"]
                /\ UNCHANGED runPhases
           ELSE /\ runPc' = "probing"
                /\ runPhases' = Append(runPhases, "probe started")
                /\ UNCHANGED runOutcome
    /\ UNCHANGED <<runFrontend, runContracts, report, savedFiles, runClock>>
    /\ UNCHANGED outsideRun

\* analyzeWebsite returns its findings or throws (scan.js line 51, API line 221).
ProbeEnds ==
    /\ runPc = "probing"
    /\ \E seconds \in ProbeSeconds : runClock' = runClock + seconds
    /\ \/ /\ ValidUrl(runRequest.url)
          /\ \E fa \in RunFrontends : runFrontend' = <<fa>>
          /\ runPc' = AfterPhase("scanning", FALSE)
          /\ runPhases' = runPhases \o <<"probe completed", "contracts started">>
          /\ UNCHANGED runOutcome
       \/ /\ \E cause \in {"Failed to launch the browser process",
                           "Navigation timeout of 30000 ms exceeded"} :
                runOutcome' = Caught(runRequest.entry, "Frontend analysis failed: " \o cause)
          /\ runPc' = AfterPhase("scanning", TRUE)
          /\ runPhases' = IF AfterPhase("scanning", TRUE) = "failed" THEN runPhases
                          ELSE Append(runPhases, "contracts started")
          /\ UNCHANGED runFrontend
    /\ UNCHANGED <<runRequest, runContracts, report, savedFiles>>
    /\ UNCHANGED outsideRun

\* scanContracts returns (scan.js line 58, API line 224); it does not throw.
ScanEnds ==
    /\ runPc = "scanning"
    /\ runFrontend # <<>>
    /\ \E ca \in RunContractsFor(runFrontend[1].contracts) : runContracts' = <<ca>>
    /\ \E seconds \in ScanSeconds(runFrontend[1].contracts) : runClock' = runClock + seconds
    /\ runPc' = AfterPhase("reporting", FALSE)
    /\ runPhases' = runPhases \o <<"contracts completed", "report started">>
    /\ UNCHANGED <<runRequest, runFrontend, report, savedFiles, runOutcome>>
    /\ UNCHANGED outsideRun

\* generateReport returns the report (scan.js line 64, API line 227).
ReportGenerated ==
    /\ runPc = "reporting"
    /\ \E scanId \in ScanIds :
          report' = <<generateReport(runRequest.url, runFrontend[1], runContracts[1], scanId)>>
    /\ runPc' = AfterPhase(IF runRequest.entry = "cli" THEN "saving" ELSE "writing", FALSE)
    /\ runPhases' = runPhases \o <<"report completed", "save started">>
    /\ UNCHANGED <<runRequest, runFrontend, runContracts, savedFiles, runOutcome, runClock>>
    /\ UNCHANGED outsideRun

\* The files the request asks for, in the order they are written.
FilesToWrite(format, scanId) ==
    (IF format \in {"json", "both"} THEN <<scanId \o ".json">> ELSE <<>>)
        \o (IF format \in {"md", "both"} THEN <<scanId \o ".md">> ELSE <<>>)

\* The segments of a path, split at every "/".
RECURSIVE Segments(_, _)
Segments(path, current) ==
    IF path = "" THEN <<current>>
    ELSE IF SubSeq(path, 1, 1) = "/"
    THEN <<current>> \o Segments(SubSeq(path, 2, Len(path)), "")
    ELSE Segments(SubSeq(path, 2, Len(path)), current \o SubSeq(path, 1, 1))

\* path.normalize on the segments: "" and "." are dropped, ".." removes the segment
\* before it (and is kept at the start of a relative path).
RECURSIVE Normalized(_, _, _)
Normalized(segments, kept, absolute) ==
    IF segments = <<>> THEN kept
    ELSE LET seg == Head(segments) rest == Tail(segments) IN
         IF seg = "" \/ seg = "." THEN Normalized(rest, kept, absolute)
         ELSE IF seg = ".."
         THEN IF kept # <<>> /\ kept[Len(kept)] # ".."
              THEN Normalized(rest, SubSeq(kept, 1, Len(kept) - 1), absolute)
              ELSE IF absolute THEN Normalized(rest, kept, absolute)
              ELSE Normalized(rest, Append(kept, seg), absolute)
         ELSE Normalized(rest, Append(kept, seg), absolute)

RECURSIVE JoinSegments(_)
JoinSegments(segments) ==
    IF segments = <<>> THEN ""
    ELSE Head(segments) \o (IF Len(segments) > 1 THEN "/" ELSE "")
            \o JoinSegments(Tail(segments))

\* path.join(dir, name) of two non-empty POSIX paths, name without a trailing "/".
PathJoin(dir, name) ==
    LET absolute == SubSeq(dir, 1, 1) = "/"
        body == JoinSegments(Normalized(Segments(dir \o "/" \o name, ""), <<>>, absolute))
    IN  IF absolute THEN "/" \o body ELSE IF body = "" THEN "." ELSE body

\* scan.js line 21: the default of --output.
OutputDir == "./reports"

\* import.meta of the module of the API: url is its only property.
ImportMeta == [url |-> "file:///app/src/utils/generateReport.js"]

\* object[name]: undefined when the object has no property of that name.
PropertyOf(object, name) ==
    IF name \in DOMAIN object THEN object[name] ELSE UndefinedValue

\* url.fileURLToPath: the path of a file: URL given as a string; a TypeError for
\* what is neither a string nor a URL.
fileURLToPath(path) ==
    IF path \in {UndefinedValue, NullValue}
    THEN [threw |-> TRUE, value |-> "",
          message |-> "The \"path\" argument must be of type string or an instance of URL."
                         \o " Received "
                         \o (IF path = UndefinedValue THEN "undefined" ELSE "null")]
    ELSE [threw |-> FALSE, value |-> SubSeq(path, Len("file://") + 1, Len(path)),
          message |-> ""]

\* path.dirname of an absolute path of two segments or more.
dirname(path) ==
    LET segments == Segments(path, "") IN
    JoinSegments(SubSeq(segments, 1, Len(segments) - 1))

\* generateReport.js lines 190-191: __filename and __dirname of the module of the
\* API.  Line 190 reads import.meta.URL, a property import.meta does not have.
ServerFilename == fileURLToPath(PropertyOf(ImportMeta, "URL"))

ServerDirname ==
    IF ServerFilename.threw THEN ServerFilename
    ELSE [ServerFilename EXCEPT !.value = dirname(@)]

\* The directory the reports go to (scan.js line 76, API line 234).
ReportsDir(entry) ==
    IF entry = "cli" THEN OutputDir ELSE PathJoin(ServerDirname.value, "../reports")

\* The module of the API is evaluated (generateReport.js lines 190-333): an
\* exception of a top-level statement ends the evaluation, and the process with
\* it, before any route is registered (lines 207-321) and before the server
\* listens (line 332).
LoadServer ==
    /\ runPc = "idle"
    /\ runRequest' = [NoRequest EXCEPT !.entry = "api"]
    /\ IF ServerDirname.threw
       THEN /\ runPc' = "crashed"
            /\ runOutcome' = [kind |-> "crash", code |-> 1, error |-> ServerDirname.message]
       ELSE /\ runPc' = "listening"
            /\ UNCHANGED runOutcome
    /\ UNCHANGED <<runFrontend, runContracts, report, savedFiles, runPhases, runClock>>
    /\ UNCHANGED outsideRun

\* error.message of a rejected fs call: the code and its description, the system
\* call and the path.
FsErrorText(code) ==
    CASE code = "EACCES" -> "EACCES: permission denied"
      [] code = "ENOENT" -> "ENOENT: no such file or directory"
      [] code = "ENOTDIR" -> "ENOTDIR: not a directory"
      [] code = "EISDIR" -> "EISDIR: illegal operation on a directory"

FsError(code, syscall, path) ==
    FsErrorText(code) \o ", " \o syscall \o " '" \o path \o "'"

MkdirErrors == {"EACCES", "ENOTDIR"}
OpenErrors == {"EACCES", "ENOENT", "EISDIR"}

\* scan.js line 76: mkdir(options.output, { recursive: true }) resolves or rejects.
MakeDir ==
    /\ runPc = "saving"
    /\ \/ /\ runPc' = AfterPhase("writing", FALSE)
          /\ UNCHANGED runOutcome
       \/ /\ \E code \in MkdirErrors :
                runOutcome' = Caught(runRequest.entry,
                                     FsError(code, "mkdir", ReportsDir(runRequest.entry)))
          /\ runPc' = AfterPhase("writing", TRUE)
    /\ UNCHANGED <<runRequest, runFrontend, runContracts, report, savedFiles, runPhases,
                   runClock>>
    /\ UNCHANGED outsideRun

\* The paths of the report files, in the order they are written.
PathsToWrite ==
    LET files == FilesToWrite(runRequest.format, report[1].scanId) IN
    [k \in 1..Len(files) |-> PathJoin(ReportsDir(runRequest.entry), files[k])]

\* scan.js lines 83 and 90, API line 237: the next writeFile resolves, the file
\* being written, or rejects.
WriteFile ==
    /\ runPc = "writing"
    /\ Cardinality(savedFiles) < Len(PathsToWrite)
    /\ LET path == PathsToWrite[Cardinality(savedFiles) + 1] IN
       \/ /\ savedFiles' = savedFiles \cup {path}
          /\ UNCHANGED <<runPc, runOutcome>>
       \/ /\ \E code \in OpenErrors :
                runOutcome' = Caught(runRequest.entry, FsError(code, "open", path))
          /\ runPc' = AfterPhase("done", TRUE)
          /\ UNCHANGED savedFiles
    /\ UNCHANGED <<runRequest, runFrontend, runContracts, report, runPhases, runClock>>
    /\ UNCHANGED outsideRun

\* scan.js lines 94-138, API lines 239-245: after the last write the report is
\* handed to the caller.
SaveReport ==
    /\ runPc = "writing"
    /\ Cardinality(savedFiles) = Len(PathsToWrite)
    /\ runPc' = AfterPhase("done", FALSE)
    /\ runOutcome' =
          [kind |-> "report",
           code |-> IF runRequest.entry = "api" THEN 200
                    ELSE IF report[1].riskSummary.level = "danger" THEN 1 ELSE 0,
           error |-> ""]
    /\ runPhases' = Append(runPhases, "save completed")
    /\ UNCHANGED <<runRequest, runFrontend, runContracts, report, savedFiles, runClock>>
    /\ UNCHANGED outsideRun

-----------------------------------------------------------------------------
(* Claims about one scan (checked under SpecRun)                           *)

CompletePhases ==
    <<"probe started", "probe completed", "contracts started", "contracts completed",
      "report started", "report completed", "save started", "save completed">>

IsPrefix(a, b) == Len(a) <= Len(b) /\ SubSeq(b, 1, Len(a)) = a

ProbeFailed == runOutcome.kind = "error" /\ runPhases = <<"probe started">>

\* C13: a scan ends with a complete report (probe, contract analysis and report
\* generation completed, in that order) or with one fatal error; the phases
\* only ever run in that order, and when analyzeWebsite fails contract analysis
\* is never started and no report is generated or saved.  Every scan is one of
\* the CLI: the module of the API ends with the exception of line 190, no scan
\* having been started.
C13_ReportOrFatalError ==
    /\ IsPrefix(runPhases, CompletePhases)
    /\ runOutcome.kind = "report" <=> runPc = "done"
    /\ runOutcome.kind = "error" <=> runPc = "failed"
    /\ runPc = "done" =>
          /\ runPhases = CompletePhases
          /\ report # <<>>
          /\ report[1].riskSummary = calculateRiskSummary(runFrontend[1], runContracts[1])
    /\ ProbeFailed =>
          /\ runContracts = <<>>
          /\ report = <<>>
          /\ savedFiles = {}
    /\ runRequest.entry = "api" =>
          /\ runPc = "crashed"
          /\ runPhases = <<>>
          /\ report = <<>>
          /\ savedFiles = {}

\* C13 witness: analyzeWebsite was started by the CLI and failed, and the scan has
\* ended with the fatal error.
C13_Witness ==
    /\ runRequest.entry = "cli"
    /\ runPc = "failed"
    /\ ProbeFailed
    /\ SubSeq(runOutcome.error, 1, 25) = "Frontend analysis failed:"

-----------------------------------------------------------------------------
(* Claims about scanContracts (checked under SpecScan)                     *)

\* C1: the returned addresses, verified and analysis have the same length and are
\* aligned position by position, whatever step of the pipeline failed.
C1_ArraysAligned ==
    scanPc = "done" =>
        /\ Len(results.addresses) = Len(results.verified)
        /\ Len(results.addresses) = Len(results.analysis)
        /\ \A i \in 1..Len(results.analysis) :
              /\ results.analysis[i].address = results.addresses[i]
              /\ results.analysis[i].verified = results.verified[i]

FailurePrefix == "Failed to analyze contract "

IsFailureString(r) == SubSeq(r, 1, Len(FailurePrefix)) = FailurePrefix

\* C3: every exception raised for an address has become exactly one risk string
\* naming that address, the call has not thrown, and once it has returned every
\* address within the cap has been processed, in order.
C3_FailuresIsolated ==
    LET failures == SelectSeq(results.risks, IsFailureString) IN
    /\ scanPc # "threw"
    /\ Len(failures) = Len(caught)
    /\ \A i \in 1..Len(caught) :
          SubSeq(failures[i], Len(FailurePrefix) + 1, Len(FailurePrefix) + Len(caught[i]))
              = caught[i]
    /\ scanPc = "done" =>
          /\ Len(fetched) = Len(addressesToAnalyze)
          /\ \A i \in 1..Len(fetched) : fetched[i].address = addressesToAnalyze[i]

\* An exception at the first of five addresses, and the four later ones processed.
C3_Witness ==
    /\ scanPc = "done"
    /\ Len(caught) >= 1
    /\ caught[1] = AddressOf(1)
    /\ Len(fetched) = MaxContracts
    /\ Len(results.analysis) >= 1

EmptyBytecode(b) == b = NullValue \/ b = "0x"

WithCode(f) == ~EmptyBytecode(f.bytecode)

\* C4: an address fetched with empty bytecode is in none of addresses, verified and
\* analysis, and processing it adds nothing to results (so nothing to risks or
\* functions).
C4_EmptyCodeLeavesNoTrace ==
    /\ [](/\ \A k \in 1..Len(fetched) :
               EmptyBytecode(fetched[k].bytecode) =>
                   /\ \A i \in 1..Len(results.addresses) :
                         results.addresses[i] # fetched[k].address
                   /\ \A i \in 1..Len(results.analysis) :
                         results.analysis[i].address # fetched[k].address
          /\ Len(results.addresses) <= Len(SelectSeq(fetched, WithCode))
          /\ Len(results.verified) <= Len(SelectSeq(fetched, WithCode))
          /\ Len(results.analysis) <= Len(SelectSeq(fetched, WithCode)))
    /\ [][(/\ Len(fetched') = Len(fetched) + 1
           /\ EmptyBytecode(fetched'[Len(fetched')].bytecode)) => results' = results]_vars

\* A scan that met an address without code and analyzed another one.
C4_Witness ==
    /\ scanPc = "done"
    /\ \E k \in 1..Len(fetched) : fetched[k].bytecode = "0x"
    /\ \E k \in 1..Len(fetched) : fetched[k].bytecode = NullValue
    /\ Len(results.analysis) >= 1

-----------------------------------------------------------------------------
(* Claims about analyzeWebsite                                             *)

\* C2: a failure while testing one control never aborts the probing loop:
\* analyzeWebsite never fails because the test of a control threw.
C2_ControlFailureTolerated ==
    probePc = "failed" => probeError.step # "control"

\* C5: every session launched by analyzeWebsite is closed on every exit path
\* (normal return, fatal page-load failure, an exception at any step after the
\* launch): once analyzeWebsite has returned or thrown, no session is open.
C5_SessionClosed ==
    probePc \in {"returned", "failed"} => browser # "open"

\* C5 witness: an exception after the launch (the page load failed) and the session
\* that had been launched is closed.
C5_Witness ==
    /\ probePc = "failed"
    /\ probeError.step = "goto"
    /\ browser = "closed"

\* C6: every invocation of the mock wallet, through request, send or enable,
\* appends one entry (method, params, timestamp) to the interaction log.  The
\* clock advances exactly when the page invokes the wallet.
C6_EveryInvocationLogged ==
    [][clock' # clock =>
          /\ Len(walletInteractions') = Len(walletInteractions) + 1
          /\ walletInteractions'[Len(walletInteractions')].timestamp = clock']_vars

\* C7: the walletInteractions returned by analyzeWebsite hold every wallet call
\* recorded at any point of the session.
C7_ReturnedLogComplete ==
    probePc = "returned" =>
        \A k \in 1..Len(sessionLog) :
            \E j \in 1..Len(probeResult[1].walletInteractions) :
                probeResult[1].walletInteractions[j] = sessionLog[k]

\* The controls whose test is over.
Tested == 1..(testIndex - 1)

\* C17: a tested control whose click target could not be located ends with
\* action 'Could not test' and risk 'unknown'.
C17_NotLocatedCouldNotTest ==
    \A i \in Tested :
        ~testLog[i].found /\ ~testLog[i].throws =>
            /\ buttons[i].action = "Could not test"
            /\ buttons[i].risk = "unknown"

\* C18: every control whose click succeeded and whose test read the log is
\* classified by priority: a non-empty log gives 'Wallet request: <method>' of
\* its first entry, with risk danger if the method contains 'send' and warning
\* otherwise; else a changed URL gives 'Navigation/redirect', warning, and the
\* original URL is loaded again before the next control; else
\* 'UI interaction (modal/state change)', safe.
C18_ClassificationPriority ==
    /\ [][(probePc = "waited" /\ buttons' # buttons) =>
             (LET b == buttons'[testIndex]
                  method == TemplateText(walletInteractions[1].method)
              IN  IF walletInteractions # <<>>
                  THEN /\ b.action = "Wallet request: " \o method
                       /\ b.risk = IF Includes(method, "send") THEN "danger"
                                   ELSE "warning"
                       /\ probePc' = "testing"
                  ELSE IF pageUrl # "original"
                  THEN /\ b.action = "Navigation/redirect"
                       /\ b.risk = "warning"
                       /\ probePc' = "goingBack"
                  ELSE /\ b.action = "UI interaction (modal/state change)"
                       /\ b.risk = "safe"
                       /\ probePc' = "testing")]_vars
    /\ [][(probePc \in {"goingBack", "backLoading"} /\ probePc' = "testing")
             => (pageUrl' = "original")]_vars

\* The methods the click on control i makes the page call.
MethodsOf(i) == {testLog[i].calls[k].method : k \in 1..Len(testLog[i].calls)}

\* C19: a wallet call caused by the click on one control is never attributed to
\* another control: a control reported as 'Wallet request: <method>' is one
\* whose click made the page call that method.
C19_CallsAttributedToTheirControl ==
    \A i \in Tested :
        \A k \in 1..Len(sessionLog) :
            buttons[i].action = "Wallet request: " \o sessionLog[k].method
                => sessionLog[k].method \in MethodsOf(i)

RECURSIVE TotalLookups(_)
TotalLookups(perContract) ==
    IF perContract = <<>> THEN 0
    ELSE Len(Head(perContract).selectors) + TotalLookups(Tail(perContract))

\* The bytecode fetched for an address (the last fetch of it).
FetchedCode(address) ==
    LET k == CHOOSE j \in 1..Len(fetched) : fetched[j].address = address
    IN  fetched[k].bytecode

\* C20 as stated: within one scanContracts batch at most 10 selectors in total
\* are looked up in the signature database.
C20_TenLookupsPerBatch ==
    TotalLookups(lookups) <= 10

\* C20 as amended: the cap is per contract: for each contract decoded the first 10
\* of its selectors are looked up (all of them once its decoding is over) and no
\* other, in order, and at most 5 contracts are decoded,
\* so at most 50 selectors are looked up in one scanContracts batch.
C20_TenLookupsPerContract ==
    /\ Len(lookups) <= 5
    /\ TotalLookups(lookups) <= 50
    /\ \A k \in 1..Len(lookups) :
          LET all == Selectors(FetchedCode(lookups[k].address)) IN
          /\ Len(lookups[k].selectors) <= 10
          /\ (k < Len(lookups) \/ scanPc \notin {"decoding", "delaying"}) =>
                Len(lookups[k].selectors) = IF Len(all) < 10 THEN Len(all) ELSE 10
          /\ \A i \in 1..Len(lookups[k].selectors) : lookups[k].selectors[i] = all[i]

\* C20 witness: two contracts of eleven selectors each were decoded: ten lookups
\* for each, twenty in the batch.
C20_Witness ==
    /\ scanPc = "done"
    /\ Len(lookups) = 2
    /\ TotalLookups(lookups) = 20
    /\ \A k \in 1..2 : Len(Selectors(FetchedCode(lookups[k].address))) = 11

-----------------------------------------------------------------------------
(* Calls of fetchContractCode: src/utils/fetchContractCode.js lines 6-37    *)

MaxFetchAddresses == 2  \* addresses fetchContractCode is called with

NoFetch == [address |-> "", codeResp |-> "", srcResp |-> "", rpcResp |-> ""]

FetchIdle ==
    /\ fetchPc = "idle"
    /\ fetchIn = NoFetch
    /\ fetchTrace = <<>>

\* Lines 6-19 and 52: the call, up to the first request of fetchFromEtherscan.
\* The answers the three requests would get are the world's.
CallFetch ==
    /\ fetchPc = "idle"
    /\ \E i \in 1..MaxFetchAddresses, codeResp \in CodeResponses, rpcResp \in CodeResponses :
       \E srcResp \in SourceResponses(codeResp) :
          /\ fetchIn' = [address |-> AddressOf(i), codeResp |-> codeResp,
                         srcResp |-> srcResp, rpcResp |-> rpcResp]
          /\ fetchTrace' = <<CallStarted(AddressOf(i))>>
    /\ fetchPc' = "code"
    /\ UNCHANGED outsideFetch

\* Lines 52-76: the eth_getCode request of Etherscan is answered and the
\* getsourcecode request is sent, or it is rejected and fetchFromEtherscan
\* returns through its catch block.
CodeAnswered ==
    /\ fetchPc = "code"
    /\ IF fetchIn.codeResp = HttpError
       THEN LET next == AfterEtherscan(fetchTrace[1],
                            Helper(TRUE, fetchFromEtherscan(HttpError, fetchIn.srcResp)))
            IN  fetchPc' = next.pc /\ fetchTrace' = <<next.call>>
       ELSE /\ fetchPc' = "source"
            /\ fetchTrace' = <<[fetchTrace[1] EXCEPT
                                  !.requests = Append(@, "etherscan getsourcecode")]>>
    /\ UNCHANGED fetchIn
    /\ UNCHANGED outsideFetch

\* Lines 68-97: the getsourcecode request is answered or rejected, and
\* fetchFromEtherscan returns.
SourceAnswered ==
    /\ fetchPc = "source"
    /\ LET next == AfterEtherscan(fetchTrace[1],
                        Helper(fetchIn.srcResp = HttpError,
                               fetchFromEtherscan(fetchIn.codeResp, fetchIn.srcResp)))
       IN  fetchPc' = next.pc /\ fetchTrace' = <<next.call>>
    /\ UNCHANGED fetchIn
    /\ UNCHANGED outsideFetch

\* Lines 113-134: the request to the public RPC is answered or rejected, and
\* fetchFromRPC returns.
RpcAnswered ==
    /\ fetchPc = "rpc"
    /\ LET next == AfterRPC(fetchTrace[1],
                        Helper(fetchIn.rpcResp = HttpError, fetchFromRPC(fetchIn.rpcResp)))
       IN  fetchPc' = next.pc /\ fetchTrace' = <<next.call>>
    /\ UNCHANGED fetchIn
    /\ UNCHANGED outsideFetch

-----------------------------------------------------------------------------
(* Specifications                                                          *)

\* calculateRiskSummary applied to one pair of findings.
InitRisk == RiskIdle /\ ScanIdle /\ ProbeIdle /\ DecodeIdle /\ RunIdle /\ ByteIdle /\ FetchIdle
NextRisk == CalculateRisk
SpecRisk == InitRisk /\ [][NextRisk]_vars

\* One call of scanContracts.
InitScan == RiskIdle /\ ScanIdle /\ ProbeIdle /\ DecodeIdle /\ RunIdle /\ ByteIdle /\ FetchIdle
NextScan ==
    StartScan \/ FetchAddress \/ LookupSelector \/ LookupDelayOver \/ CompleteAddress
        \/ ReturnResults
SpecScan == InitScan /\ [][NextScan]_vars

\* One call of analyzeWebsite on one page.
InitProbe == RiskIdle /\ ScanIdle /\ ProbeIdle /\ DecodeIdle /\ RunIdle /\ ByteIdle /\ FetchIdle
NextProbe ==
    \/ Launch
    \/ SetUpPage
    \/ LoadPage
    \/ GotoFails
    \/ GotoReturns
    \/ PageCallsWallet
    \/ PageRequests
    \/ SettleOver
    \/ DiscoverControls
    \/ ClearLog
    \/ FindControl
    \/ ClickControl
    \/ WaitAfterClick
    \/ ClassifyControl
    \/ BackLoads
    \/ GoBackFails
    \/ GoBackReturns
    \/ CollectAddresses
    \/ ReadLog
    \/ Close
SpecProbe == InitProbe /\ [][NextProbe]_vars

\* One direct call of a bytecode helper.
InitByte == RiskIdle /\ ScanIdle /\ ProbeIdle /\ DecodeIdle /\ RunIdle /\ ByteIdle /\ FetchIdle
NextByte == DetectProxyCall \/ ExtractSelectorsCall \/ AnalyzeRisksCall
SpecByte == InitByte /\ [][NextByte]_vars

\* One call of fetchContractCode.
InitFetch == RiskIdle /\ ScanIdle /\ ProbeIdle /\ DecodeIdle /\ RunIdle /\ ByteIdle /\ FetchIdle
NextFetch == CallFetch \/ CodeAnswered \/ SourceAnswered \/ RpcAnswered
SpecFetch == InitFetch /\ [][NextFetch]_vars

\* One scan, from the command line or through the API.
InitRun == RiskIdle /\ ScanIdle /\ ProbeIdle /\ DecodeIdle /\ RunIdle /\ ByteIdle /\ FetchIdle
NextRun ==
    \/ LoadServer \/ ReceiveRequest \/ ProbeEnds \/ ScanEnds \/ ReportGenerated
    \/ MakeDir \/ WriteFile \/ SaveReport
SpecRun == InitRun /\ [][NextRun]_vars

\* One call of the selector resolver.
InitDecode == RiskIdle /\ ScanIdle /\ ProbeIdle /\ DecodeIdle /\ RunIdle /\ ByteIdle /\ FetchIdle
NextDecode == CallDecode \/ LookupAnswered \/ DelayOver \/ ResolveFromTable
SpecDecode == InitDecode /\ [][NextDecode]_vars

-----------------------------------------------------------------------------
(* Claims about the aggregator (checked under SpecRisk)                    *)

Returned == riskSummary # <<>>

RECURSIVE SumPenalties(_, _)
SumPenalties(risks, table) ==
    IF risks = <<>> THEN 0
    ELSE table[Head(risks)] + SumPenalties(Tail(risks), table)

\* p(r) on the exact, case-sensitive texts the aggregator looks for.
ExactPenalty ==
    [r \in RiskPool |->
        IF Includes(r, "SELFDESTRUCT") \/ Includes(r, "Proxy") THEN 20
        ELSE IF Includes(r, "DELEGATECALL") \/ Includes(r, "Dangerous function") THEN 15
        ELSE 5]

\* A risk string mentions a word when the word occurs in it in any letter case.
Mentions(r, word) == Includes(ToLowerCase(r), word)

\* p(r) as worded: "mentions self-destruct or proxy", "mentions delegate-call or
\* 'Dangerous function'".
MentionPenalty ==
    [r \in RiskPool |->
        IF Mentions(r, "selfdestruct") \/ Mentions(r, "proxy") THEN 20
        ELSE IF Mentions(r, "delegatecall") \/ Includes(r, "Dangerous function") THEN 15
        ELSE 5]

\* Sum of all deductions, before the floor at 0.
TotalPenalty(fa, ca, table) ==
      15 * Len(SelectSeq(fa.buttons, IsDanger))
    + 5 * Len(SelectSeq(fa.buttons, IsWarning))
    + (IF Len(fa.externalScripts) > 3 THEN 10 ELSE 0)
    + (IF Len(ca.addresses) = 0 THEN 20 ELSE 0)
    + 10 * Len(SelectSeq(ca.verified, IsFalse))
    + SumPenalties(ca.risks, table)

ButtonsWith(rs) == [i \in 1..Len(rs) |-> [risk |-> rs[i]]]

\* <<msg>> when the condition was triggered.
When(cond, msg) == IF cond THEN <<msg>> ELSE <<>>

\* The condition messages in evaluation order, then the contract risk strings.
FoundIssues(fa, ca) ==
    LET d == Len(SelectSeq(fa.buttons, IsDanger))
        w == Len(SelectSeq(fa.buttons, IsWarning))
        u == Len(SelectSeq(ca.verified, IsFalse))
    IN  When(d > 0, ToString(d) \o " high-risk button(s) detected (wallet transactions)")
        \o When(w > 0, ToString(w) \o " medium-risk button(s) detected (signatures/redirects)")
        \o When(Len(fa.externalScripts) > 3,
                "High number of external scripts (" \o ToString(Len(fa.externalScripts)) \o ")")
        \o When(Len(ca.addresses) = 0,
                "No smart contracts detected - may not be a genuine Web3 dApp")
        \o When(u > 0, ToString(u) \o " unverified contract(s) detected")
        \o ca.risks

NoIssuesEntry == "No significant security issues detected"

\* C16: the issues returned are never empty; they are the triggered condition
\* messages in evaluation order followed by the contract risk strings in input
\* order; the 'No significant security issues detected' entry is present iff none
\* of these was added; with at least one verified contract the 'N verified
\* contract(s) found' entry comes first, whether or not there are other issues.
C16_IssuesList ==
    Returned =>
        LET issues == riskSummary[1].issues
            found == FoundIssues(frontendAnalysis, contractAnalysis)
            v == Len(SelectSeq(contractAnalysis.verified, IsTrue))
            rest == IF v > 0 THEN Tail(issues) ELSE issues
        IN  /\ Len(issues) > 0
            /\ v > 0 => issues[1] = "[ok] " \o ToString(v) \o " verified contract(s) found"
            /\ found # <<>> => rest = found
            /\ found = <<>> => rest = <<NoIssuesEntry>>
            /\ (\E k \in 1..Len(issues) : issues[k] = NoIssuesEntry) <=> found = <<>>

\* C16 witness: a verified contract next to other issues (an unverified contract
\* and a contract risk): the verified entry is first and the others follow.
C16_Witness ==
    /\ Returned
    /\ contractAnalysis.verified = <<TRUE>>
    /\ Len(contractAnalysis.risks) = 2
    /\ Len(SelectSeq(frontendAnalysis.buttons, IsDanger)) > 0
    /\ Len(riskSummary[1].issues) = 4

\* C8: the returned score is an integer in [0,100] for every input, also when the
\* deductions add up to more than 100.
C8_ScoreInRange ==
    Returned => riskSummary[1].score \in 0..100

C8_Witness ==
    /\ Returned
    /\ TotalPenalty(frontendAnalysis, contractAnalysis, ExactPenalty) > 100
    /\ riskSummary[1].score = 0

\* C9: the returned level is decided by the returned score alone: safe iff
\* score >= 80, warning iff 50 <= score < 80, danger iff score < 50.
C9_LevelFromScore ==
    Returned =>
        LET r == riskSummary[1] IN
        /\ r.level = "safe" <=> r.score >= 80
        /\ r.level = "warning" <=> (50 <= r.score /\ r.score < 80)
        /\ r.level = "danger" <=> r.score < 50

C9_Witness ==
    /\ Returned
    /\ riskSummary[1].score = 50
    /\ riskSummary[1].level = "warning"

\* C10 as stated: score = max(0, 100 - deductions) with p(r) = 20 for a risk string
\* that mentions self-destruct or proxy, 15 for one that mentions delegate-call or
\* 'Dangerous function', 5 otherwise.
C10_ScoreAsStated ==
    Returned =>
        riskSummary[1].score =
            Max(0, 100 - TotalPenalty(frontendAnalysis, contractAnalysis, MentionPenalty))

\* C10 amended: the same formula with p(r) = 20 when r contains the exact text
\* SELFDESTRUCT or Proxy, 15 when it contains the exact text DELEGATECALL or
\* Dangerous function, 5 otherwise; empty findings give 80/safe, and one danger
\* control plus two warning controls with zero contracts give 55/warning.
C10_ScoreFormula ==
    Returned =>
        /\ riskSummary[1].score =
              Max(0, 100 - TotalPenalty(frontendAnalysis, contractAnalysis, ExactPenalty))
        /\ (frontendAnalysis = NoFrontend /\ contractAnalysis = NoContracts)
              => (riskSummary[1].score = 80 /\ riskSummary[1].level = "safe")
        /\ (/\ Len(frontendAnalysis.buttons) = 3
            /\ Len(SelectSeq(frontendAnalysis.buttons, IsDanger)) = 1
            /\ Len(SelectSeq(frontendAnalysis.buttons, IsWarning)) = 2
            /\ frontendAnalysis.externalScripts = <<>>
            /\ contractAnalysis = NoContracts)
              => (riskSummary[1].score = 55 /\ riskSummary[1].level = "warning")

C10_Witness ==
    /\ Returned
    /\ frontendAnalysis.buttons = ButtonsWith(<<"danger", "warning", "warning">>)
    /\ frontendAnalysis.externalScripts = <<>>
    /\ contractAnalysis = NoContracts
    /\ riskSummary[1].score = 55

Reported == report # <<>>

HasIssue(issues, msg) == \E k \in 1..Len(issues) : issues[k] = msg

RECURSIVE SumOfPenalties(_)
SumOfPenalties(risks) ==
    IF risks = <<>> THEN 0
    ELSE PenaltyOf(Head(risks)) + SumOfPenalties(Tail(risks))

\* Every deduction but the no-contracts one.
OtherDeductions(fa, ca) ==
      15 * Len(SelectSeq(fa.buttons, IsDanger))
    + 5 * Len(SelectSeq(fa.buttons, IsWarning))
    + (IF Len(fa.externalScripts) > 3 THEN 10 ELSE 0)
    + 10 * Len(SelectSeq(ca.verified, IsFalse))
    + SumOfPenalties(ca.risks)

\* The no-contracts deduction and its issue are in the report exactly when cond.
NoContractsPenaltyIff(cond) ==
    LET summary == report[1].riskSummary IN
    /\ HasIssue(summary.issues, NoContractsIssue) <=> cond
    /\ summary.score =
          Max(0, 100 - OtherDeductions(runFrontend[1], runContracts[1])
                     - (IF cond THEN 20 ELSE 0))

\* C22 as stated: in the end-to-end scan the 20-point no-contracts penalty and its
\* issue are applied exactly when no contract address was found for the page.
C22_PenaltyIffNoAddressFound ==
    Reported => NoContractsPenaltyIff(runFrontend[1].contracts = <<>>)

\* C22 amended: the penalty and its issue are applied exactly when scanContracts
\* returns no address, which is when no address found for the page (among the
\* first 5) yielded bytecode; a page without any address is one such case.
C22_PenaltyIffNoAddressWithCode ==
    Reported =>
        /\ NoContractsPenaltyIff(runContracts[1].addresses = <<>>)
        /\ runFrontend[1].contracts = <<>> => runContracts[1].addresses = <<>>

\* C22 witness: the page mentions an address, the address has no code, and the
\* report carries the penalty.
C22_Witness ==
    /\ Reported
    /\ runFrontend[1].contracts # <<>>
    /\ runContracts[1].addresses = <<>>
    /\ HasIssue(report[1].riskSummary.issues, NoContractsIssue)

\* s is t with some elements left out, order kept.
RECURSIVE IsSubsequence(_, _)
IsSubsequence(s, t) ==
    IF s = <<>> THEN TRUE
    ELSE IF t = <<>> THEN FALSE
    ELSE IF Head(s) = Head(t) THEN IsSubsequence(Tail(s), Tail(t))
    ELSE IsSubsequence(s, Tail(t))

FirstInputs(n) == SubSeq(contractAddresses, 1, Min(Len(contractAddresses), n))

\* C23: scanContracts fetches only the first 5 addresses of its input, in input
\* order, and none beyond the fifth; the result has at most 5 entries in
\* addresses, verified and analysis, and addresses is a subsequence of the first
\* 5 inputs.
C23_FirstFiveOnly ==
    /\ Len(fetched) <= 5
    /\ [i \in 1..Len(fetched) |-> fetched[i].address] = FirstInputs(Len(fetched))
    /\ scanPc = "done" => Len(fetched) = Min(Len(contractAddresses), 5)
    /\ Len(results.addresses) <= 5
    /\ Len(results.verified) <= 5
    /\ Len(results.analysis) <= 5
    /\ IsSubsequence(results.addresses, FirstInputs(5))

\* C23 witness: six addresses were given, the call is over, five were fetched and
\* one of them, not the last, had no code.
C23_Witness ==
    /\ scanPc = "done"
    /\ Len(contractAddresses) = 6
    /\ Len(fetched) = 5
    /\ Len(results.addresses) = 4
    /\ results.addresses[2] = contractAddresses[3]

\* A '63' marker at position p of the bytecode, followed by 8 hex digits.
MarkerAt(b, p) ==
    /\ p + 9 <= Len(b)
    /\ SubSeq(b, p, p + 1) = "63"
    /\ \A k \in (p + 2)..(p + 9) : Includes(HexChars, SubSeq(b, k, k))

\* The positions a left-to-right scan matches from position from on: the leftmost
\* marker, then the leftmost one after the 4-byte group of that match.
RECURSIVE ScanMatches(_, _)
ScanMatches(b, from) ==
    LET ps == {p \in from..Len(b) : MarkerAt(b, p)} IN
    IF ps = {} THEN {}
    ELSE LET first == CHOOSE p \in ps : \A q \in ps : p <= q
         IN  {first} \cup ScanMatches(b, first + 10)

GroupAt(b, p) == "0x" \o SubSeq(b, p + 2, p + 9)

\* C24: extractFunctionSelectors returns the 4-byte groups that follow a '63'
\* marker in a left-to-right scan of the bytecode, each prefixed with '0x', none
\* twice, ordered by first occurrence in the bytecode.
C24_SelectorsExtracted ==
    byteFn = "extractFunctionSelectors" =>
        LET out == byteOut[1]
            matches == ScanMatches(byteIn, 1)
            FirstAt(sel) == CHOOSE p \in matches :
                                /\ GroupAt(byteIn, p) = sel
                                /\ \A q \in matches : GroupAt(byteIn, q) = sel => p <= q
        IN  /\ {out[i] : i \in 1..Len(out)} = {GroupAt(byteIn, p) : p \in matches}
            /\ \A i, j \in 1..Len(out) : i # j => out[i] # out[j]
            /\ \A i, j \in 1..Len(out) : i < j => FirstAt(out[i]) < FirstAt(out[j])

\* C24 witness: a selector occurs twice with another one in between; it is
\* returned once, before the other.
C24_Witness ==
    /\ byteFn = "extractFunctionSelectors"
    /\ byteIn = "0x63a9059cbb6318160ddd63a9059cbb"
    /\ byteOut[1] = <<"0xa9059cbb", "0x18160ddd">>

Copies(x, n) == [i \in 1..n |-> x]

RECURSIVE Flatten(_)
Flatten(seqs) == IF seqs = <<>> THEN <<>> ELSE Head(seqs) \o Flatten(Tail(seqs))

\* The dangerous keywords, in lower case.
Keywords ==
    {"transferownership", "selfdestruct", "suicide", "delegatecall", "changeimplementation"}

\* C25: analyzeContractRisks returns, in this order: one fixed description per
\* dangerous opcode pattern (ff, f4, f1, f2) present anywhere in the lowercased
\* bytecode; one proxy finding iff detectProxy holds; one 'Dangerous function
\* detected: <function>' finding per pair of decoded function and dangerous
\* keyword it contains, letter case aside; one large-contract finding iff the
\* bytecode string is longer than 50000 characters.
C25_RisksInOrder ==
    (byteFn = "analyzeContractRisks" /\ ~byteOut[1].threw) =>
        byteOut[1].risks =
            When(ContainsAnyCase(byteIn, "ff"), "SELFDESTRUCT - Contract can be destroyed")
            \o When(ContainsAnyCase(byteIn, "f4"),
                    "DELEGATECALL - Dangerous proxy pattern detected")
            \o When(ContainsAnyCase(byteIn, "f1"), "CALL - External calls detected")
            \o When(ContainsAnyCase(byteIn, "f2"), "CALLCODE - Legacy external call pattern")
            \o When(detectProxy(byteIn),
                    "Proxy contract detected - Implementation can be changed")
            \o Flatten([i \in 1..Len(byteFunctions) |->
                    Copies("Dangerous function detected: " \o byteFunctions[i],
                           Cardinality({kw \in Keywords :
                                          ContainsAnyCase(byteFunctions[i], kw)}))])
            \o When(Len(byteIn) > 50000, "Large contract size - High complexity detected")

\* C25 witness: every kind of finding at once: a bytecode longer than 50000
\* characters with an upper-case CALL byte, and a function with two keywords in
\* another letter case.
C25_Witness ==
    /\ byteFn = "analyzeContractRisks"
    /\ Len(byteIn) = 50002
    /\ byteFunctions = <<"selfdestructViaDelegateCall()", "transfer(address,uint256)">>
    /\ byteOut[1].risks =
          <<"CALL - External calls detected",
            "Dangerous function detected: selfdestructViaDelegateCall()",
            "Dangerous function detected: selfdestructViaDelegateCall()",
            "Large contract size - High complexity detected">>

\* The call has ended.
Fetched == fetchPc \in {"returned", "threw"}

Asked(request) == \E k \in 1..Len(fetchTrace[1].requests) : fetchTrace[1].requests[k] = request

\* The request was sent and failed or timed out.
FailedRequest(request) ==
    /\ Asked(request)
    /\ CASE request = "etherscan eth_getCode" -> fetchIn.codeResp = HttpError
         [] request = "etherscan getsourcecode" -> fetchIn.srcResp = HttpError
         [] request = "rpc eth_getCode" -> fetchIn.rpcResp = HttpError

\* The primary source answered the bytecode request with some bytecode.
PrimaryYieldedBytecode ==
    fetchIn.codeResp \notin {HttpError, NullValue, ""}

C27_TimeoutHonoured ==
    (runRequest.entry = "cli"
        /\ runPc \in {"scanning", "reporting", "saving", "writing", "done"})
        => runClock <= runRequest.timeout

\* C28: whenever a control is about to be tested the page is at the original
\* URL: after a tested control whose click changed the URL the session is back
\* at the original URL before the next control is tested, also when that click
\* produced a wallet call.
C28_ClickedAtOriginalUrl ==
    (probePc = "testing" /\ testIndex <= Min(Len(buttons), MaxTested))
        => pageUrl = "original"

\* C29: a tested control whose click caused a wallet call with a method
\* containing 'send' is classified with risk danger, whatever the position of
\* that call among the calls logged for the click.
C29_AnySendIsDanger ==
    [][(probePc = "waited" /\ probePc' = "testing"
        /\ \E k \in 1..Len(walletInteractions) :
              Includes(walletInteractions[k].method, "send"))
       => buttons'[testIndex].risk = "danger"]_vars

ProxyFinding == "Proxy contract detected - Implementation can be changed"
DelegatecallFinding == "DELEGATECALL - Dangerous proxy pattern detected"

\* C30: in every record of results.analysis, isProxy is true iff the record's
\* risks contain the proxy finding, and a record whose risks contain the
\* DELEGATECALL finding also contains the proxy finding and has isProxy true.
C30_ProxyFlagMatchesFinding ==
    \A k \in 1..Len(results.analysis) :
        LET record == results.analysis[k] IN
        /\ record.isProxy <=> HasIssue(record.risks, ProxyFinding)
        /\ HasIssue(record.risks, DelegatecallFinding)
              => (HasIssue(record.risks, ProxyFinding) /\ record.isProxy)

\* C30 witness: a record of a contract whose DELEGATECALL byte is in upper case,
\* flagged as a proxy, next to a record of a contract that is not a proxy.
C30_Witness ==
    /\ scanPc = "done"
    /\ \E k \in 1..Len(results.analysis) :
          /\ results.analysis[k].isProxy
          /\ HasIssue(results.analysis[k].risks, DelegatecallFinding)
          /\ HasIssue(results.analysis[k].risks, ProxyFinding)
    /\ \E k \in 1..Len(results.analysis) :
          /\ ~results.analysis[k].isProxy
          /\ results.analysis[k].risks # <<>>

=============================================================================
